---- MODULE Spec2Model ----
(***************************************************************************)
(* State-machine model of the transformation-and-validation pipeline of    *)
(* mappino:                                                                *)
(*   backend/app/services/validators/{base,registry,helger,xsd,            *)
(*   schematron}.py, backend/app/services/transformer.py and the validate  *)
(*   endpoints of backend/app/routers/validation.py                        *)
(* The module holds one specification per component:                       *)
(*   Spec          one batch of ValidatorRegistry.validate or              *)
(*                 validate_local_only at a time                           *)
(*   CompareSpec   ValidatorRegistry.validate_with_comparison              *)
(*   XsdSpec       direct calls of XSDValidator.validate                   *)
(*   DetectSpec    TransformerService.detect_xslt_version                  *)
(*   TransformSpec TransformerService.transform / transform_with_mapper    *)
(*   RouterSpec    the endpoints /validate, /validate/compare and          *)
(*                 /validate/quick                                         *)
(* Each specification holds the variables of the other components at      *)
(* their initial value.  Time is a logical clock in milliseconds that only *)
(* the blocking operations of the remote validator (time.sleep and the     *)
(* SOAP call) advance.                                                     *)
(***************************************************************************)
EXTENDS Integers, Sequences, FiniteSets, TLC

VARIABLES
    client,      \* HelgerValidator._client / _service (class level): "none" | "ready"
    registry,    \* ValidatorRegistry._validators, in dict (insertion) order
    phase,       \* "boot" | "init_failed" | "idle" | "local" | "external" | "done"
    mode,        \* entry point of the running batch: "validate" | "local_only" | "compare"
    sel,         \* the validator_types argument: [given, types]; given = FALSE is None
    doc,         \* the xml_bytes argument
    validators,  \* the local variable `validators` of ValidatorRegistry.validate
    localRes,    \* outcomes of the gathered local tasks, by position
    extIdx,      \* position of the loop `for v in external`
    hpc,         \* position inside HelgerValidator.validate: "out" | "slept"
    tEnter,      \* clock value when the running HelgerValidator.validate was entered
    results,     \* the local variable `results`
    ret,         \* the MultiValidationResult returned by the batch
    now,         \* logical clock (ms) since the batch started
    calls,       \* remote calls of the batch: [v, invoked, start, end]
    invoked,     \* validators whose validate was entered, in order
    outcomes,    \* [v, tag, fault] of every finished validate call, in order of completion
    netFault,    \* the remote authority was unreachable or faulted at some point
    comparison,  \* the "comparison" list returned by validate_with_comparison
    xsdFiles,    \* the schema files present under XSD_DIR: name -> it loads as a schema
    schemaCache, \* XSDValidator._schema_cache: the schema_path keys it holds
    lcall,       \* the last direct call of a local validator and what it returned
    detected,    \* the last call of detect_xslt_version and what it returned
    saxonAvailable, \* SAXON_AVAILABLE (transformer.py, set at import)
    lxmlCache,   \* TransformerService._lxml_cache: digest -> compiled stylesheet
    builtinMappers, \* the files of mappers_dir: name -> stylesheet bytes
    userMappers, \* the files of user_mappers_dir: name -> stylesheet bytes
    tcall,       \* the last transform / transform_with_mapper call and its result
    compilations, \* digest -> how many times ET.XSLT(...) compiled a stylesheet of that digest
    rpc,         \* position of the endpoint: "off" | "idle" | "file" | "batch" | "returned"
    request,     \* the request being served: [endpoint, mapper, files]
    fileIdx,     \* position of the loop `for file in files`
    entries,     \* the local variable `results` of the endpoint
    scall,       \* the last save_user_mapper / delete_user_mapper / list_mappers call
    hcall,       \* the last remote report parsed by HelgerValidator.validate
    raceCache,   \* a compiled-artifact cache (a dict), as its list of entries
    workers,     \* the calls populating raceCache: where each is, its key, its artifact
    ploop,       \* the coroutine the event loop is running (0: none)
    pnow,        \* the clock (ms) of the process
    ptasks,      \* the concurrent calls of ValidatorRegistry.validate
    pcalls       \* the remote calls of the process: [task, slept, start, end]

\* the state of the validator registry and of its running batch
registryVars == <<client, registry, phase, mode, sel, doc, validators, localRes, extIdx,
                  hpc, tEnter, results, ret, now, calls, invoked, outcomes, netFault>>

compareVars == <<comparison>>
localVars == <<xsdFiles, schemaCache, lcall>>
detectVars == <<detected>>
transformVars == <<saxonAvailable, lxmlCache, builtinMappers, userMappers, tcall,
                   compilations>>
routerVars == <<rpc, request, fileIdx, entries>>

storeVars == <<scall>>

\* the components the registry, the validators, the transformer and the
\* endpoints leave alone
helgerVars == <<hcall>>
raceVars == <<raceCache, workers>>
paceVars == <<ploop, pnow, ptasks, pcalls>>
sideVars == <<storeVars, helgerVars, raceVars, paceVars>>

vars == <<registryVars, compareVars, localVars, detectVars, transformVars, routerVars,
          sideVars>>

\* what a batch of the registry leaves alone
offRegistry == <<compareVars, localVars, detectVars, transformVars, routerVars, sideVars>>

(***************************************************************************)
(* Bounds of the model.                                                    *)
(***************************************************************************)
MaxSel == 2        \* longest validator_types list
MaxIssues == 1     \* most issues a validator reports on a document
CallMs == 1        \* duration of one remote call on the logical clock

(***************************************************************************)
(* base.py: Severity, ValidationIssue, ValidationResult                    *)
(***************************************************************************)
ERROR == "error"
WARNING == "warning"
INFO == "info"
Severity == {ERROR, WARNING, INFO}

ValidationIssue(sev, rule, msg) == [severity |-> sev, rule_id |-> rule, message |-> msg]

ValidationResult(name, vtype, ok, iss) ==
    [validator_name |-> name, validator_type |-> vtype, success |-> ok, issues |-> iss]

IsError(i) == i.severity = ERROR
IsWarning(i) == i.severity = WARNING

\* ValidationResult.errors with a plausible slip: every issue that is not a
\* warning is counted as an error.
ErrorsCountsInfo(r) == SelectSeq(r.issues, LAMBDA i : ~IsWarning(i))

\* ValidationResult.errors
Errors(r) == SelectSeq(r.issues, IsError)

\* ValidationResult.warnings
Warnings(r) == SelectSeq(r.issues, IsWarning)

RECURSIVE SumErrors(_)
\* sum(len(r.errors) for r in results)
SumErrors(rs) == IF rs = <<>> THEN 0 ELSE Len(Errors(Head(rs))) + SumErrors(Tail(rs))

RECURSIVE SumWarnings(_)
\* sum(len(r.warnings) for r in results)
SumWarnings(rs) == IF rs = <<>> THEN 0 ELSE Len(Warnings(Head(rs))) + SumWarnings(Tail(rs))

\* all(...) with a plausible slip: only the last result decides
LastSuccess(rs) == rs = <<>> \/ rs[Len(rs)].success

\* all(r.success for r in results)
AllSuccess(rs) == \A k \in 1..Len(rs) : rs[k].success

\* Sequences over S of length at most n
SeqUpTo(S, n) == UNION {[1..k -> S] : k \in 0..n}

(***************************************************************************)
(* The validators.  A registered validator is [vtype, kind]: kind is the   *)
(* class whose validate it runs, vtype its validator_type property (the    *)
(* key it is registered under).                                            *)
(***************************************************************************)
VTypes == {"helger", "xsd", "schematron"}
UnknownType == "nope"
TypeNames == VTypes \cup {UnknownType}

Validator(t, k) == [vtype |-> t, kind |-> k]

\* the is_local property of each class
IsLocal(v) == v.kind # "helger"

\* the name property of each class
Name(v) ==
    CASE v.kind = "helger" -> "Helger WSDVS"
      [] v.kind = "xsd" -> "XSD Schema"
      [] v.kind = "schematron" -> "Schematron"

\* HelgerValidator.__init__(rate_limit_ms=550)
RATE_LIMIT_MS == 550

\* Documents: well-formed or not, decodable as UTF-8 or not (a well-formed
\* document may declare another encoding).
Docs == [wellformed : BOOLEAN, utf8 : BOOLEAN]

\* Outcome of a validate call: a returned result or a raised exception.
Returned(r) == [tag |-> "ok", res |-> r, msg |-> ""]
Raised(m) == [tag |-> "exc", res |-> <<>>, msg |-> m]
Pending == [tag |-> "pending", res |-> <<>>, msg |-> ""]

\* The common XMLSyntaxError branch of XSDValidator / SchematronValidator
SyntaxResult(v) ==
    ValidationResult(Name(v), v.vtype, FALSE,
                     <<ValidationIssue(ERROR, "XML_SYNTAX", "XML parsing error")>>)

RuleIds == {"R1"}

(***************************************************************************)
(* xsd.py: XSDValidator.validate.  schema: whether _load_schema /          *)
(* _detect_schema resolved a schema; check: what schema.assertValid did    *)
(* ("valid", "invalid" = DocumentInvalid, "fault" = any other exception);  *)
(* nerr: the length of schema.error_log.                                   *)
(***************************************************************************)
XSDChecks == {"valid", "invalid", "fault"}

XSDInvalidIssues(nerr) ==
    [k \in 1..nerr |-> ValidationIssue(ERROR, "XSD_INVALID", "schema error")]

\* a document without schema reported as a failure
XSDValidateNoSchemaFails(v, d, schema, check, nerr) ==
    IF ~d.wellformed THEN Returned(SyntaxResult(v))
    ELSE IF ~schema THEN
        Returned(ValidationResult(Name(v), v.vtype, FALSE,
            <<ValidationIssue(ERROR, "XSD_NO_SCHEMA", "No XSD schema found")>>))
    ELSE IF check = "valid" THEN Returned(ValidationResult(Name(v), v.vtype, TRUE, <<>>))
    ELSE IF check = "invalid" THEN
        Returned(ValidationResult(Name(v), v.vtype, FALSE, XSDInvalidIssues(nerr)))
    ELSE Raised("XMLSchemaValidateError")

XSDValidate(v, d, schema, check, nerr) ==
    IF ~d.wellformed THEN Returned(SyntaxResult(v))
    ELSE IF ~schema THEN
        Returned(ValidationResult(Name(v), v.vtype, TRUE,
            <<ValidationIssue(INFO, "XSD_NO_SCHEMA", "XML is well-formed")>>))
    ELSE IF check = "valid" THEN Returned(ValidationResult(Name(v), v.vtype, TRUE, <<>>))
    ELSE IF check = "invalid" THEN
        Returned(ValidationResult(Name(v), v.vtype, FALSE, XSDInvalidIssues(nerr)))
    ELSE Raised("XMLSchemaValidateError")

(***************************************************************************)
(* schematron.py: SchematronValidator.validate.  xslt: whether a compiled  *)
(* rule-set was resolved; run: what xslt(doc) did ("ok", "apply_error" =   *)
(* XSLTApplyError, "fault" = any other exception); svrl: the               *)
(* failed-assert / successful-report elements of the output, as            *)
(* [flag, id], in the order _parse_svrl emits them.                        *)
(***************************************************************************)
Flags == {"fatal", "error", "warning", "info"}
SchRuns == {"ok", "apply_error", "fault"}
SvrlEntries == [flag : Flags, id : RuleIds]

\* the flag -> severity mapping of _parse_svrl
FlagSeverity(flag) ==
    IF flag \in {"fatal", "error"} THEN ERROR
    ELSE IF flag = "warning" THEN WARNING
    ELSE INFO

ParseSvrl(svrl) ==
    [k \in 1..Len(svrl) |->
        ValidationIssue(FlagSeverity(svrl[k].flag), svrl[k].id, "assertion")]

\* success computed from the fatal flags alone
SchematronValidateFatalOnly(v, d, xslt, run, svrl) ==
    IF ~d.wellformed THEN Returned(SyntaxResult(v))
    ELSE IF ~xslt THEN
        Returned(ValidationResult(Name(v), v.vtype, TRUE,
            <<ValidationIssue(INFO, "SCH_NO_RULES", "No Schematron rules found")>>))
    ELSE IF run = "apply_error" THEN
        Returned(ValidationResult(Name(v), v.vtype, FALSE,
            <<ValidationIssue(ERROR, "SCH_TRANSFORM_ERROR", "Schematron transform error")>>))
    ELSE IF run = "fault" THEN Raised("XSLTError")
    ELSE Returned(ValidationResult(Name(v), v.vtype,
             ~(\E k \in 1..Len(svrl) : svrl[k].flag = "fatal"), ParseSvrl(svrl)))

SchematronValidate(v, d, xslt, run, svrl) ==
    IF ~d.wellformed THEN Returned(SyntaxResult(v))
    ELSE IF ~xslt THEN
        Returned(ValidationResult(Name(v), v.vtype, TRUE,
            <<ValidationIssue(INFO, "SCH_NO_RULES", "No Schematron rules found")>>))
    ELSE IF run = "apply_error" THEN
        Returned(ValidationResult(Name(v), v.vtype, FALSE,
            <<ValidationIssue(ERROR, "SCH_TRANSFORM_ERROR", "Schematron transform error")>>))
    ELSE IF run = "fault" THEN Raised("XSLTError")
    ELSE LET issues == ParseSvrl(svrl)
         IN  Returned(ValidationResult(Name(v), v.vtype,
                 ~(\E k \in 1..Len(issues) : issues[k].severity = ERROR), issues))

(***************************************************************************)
(* helger.py: HelgerValidator.validate, in the two steps the clock can     *)
(* tell apart: decode + time.sleep, then the remote call and the parsing   *)
(* of its report.  A report is the sequence of its result items, each      *)
(* [errorLevel, errorID]; an empty errorLevel is an item without level.    *)
(***************************************************************************)
Levels == {"ERROR", "WARN", "SUCCESS", ""}
ReportItems == [errorLevel : Levels, errorID : RuleIds]

\* xml_bytes.decode("utf-8") succeeds
HelgerDecodes(d) == d.utf8

\* time.sleep skipped: a remote call without pacing
NoPacingDelay(v) == 0

\* time.sleep(self.rate_limit_ms / 1000.0), in ms
PacingDelay(v) == RATE_LIMIT_MS

\* _parse_issue: the severity of an item that has a level
LevelSeverity(level) ==
    IF level = "ERROR" THEN ERROR
    ELSE IF level = "WARN" THEN WARNING
    ELSE INFO

RECURSIVE HelgerIssues(_)
\* the loop over result_dict["Result"]: items without level yield no issue
HelgerIssues(report) ==
    IF report = <<>> THEN <<>>
    ELSE LET item == Head(report)
         IN  IF item.errorLevel = "" THEN HelgerIssues(Tail(report))
             ELSE <<ValidationIssue(LevelSeverity(item.errorLevel), item.errorID, "remote")>>
                  \o HelgerIssues(Tail(report))

\* the except branch around self._service.validate
HelgerConnection(v) ==
    ValidationResult(Name(v), v.vtype, FALSE,
        <<ValidationIssue(ERROR, "HELGER_CONNECTION", "Validation service error: fault")>>)

HelgerReportResult(v, report) ==
    LET issues == HelgerIssues(report)
    IN  ValidationResult(Name(v), v.vtype, Len(SelectSeq(issues, IsError)) = 0, issues)

(***************************************************************************)
(* registry.py: ValidatorRegistry                                          *)
(***************************************************************************)
MultiValidationResult(rs, ok, te, tw) ==
    [results |-> rs, overall_success |-> ok, total_errors |-> te, total_warnings |-> tw]

NoReturn == [results |-> <<>>, overall_success |-> TRUE, total_errors |-> -1,
             total_warnings |-> -1]

\* _register_defaults
Defaults == <<Validator("helger", "helger"), Validator("xsd", "xsd"),
              Validator("schematron", "schematron")>>

HasType(reg, t) == \E i \in 1..Len(reg) : reg[i].vtype = t
Lookup(reg, t) == reg[CHOOSE i \in 1..Len(reg) : reg[i].vtype = t]

\* register: self._validators[validator.validator_type] = validator
RegisterIn(reg, v) ==
    IF HasType(reg, v.vtype)
    THEN [i \in 1..Len(reg) |-> IF reg[i].vtype = v.vtype THEN v ELSE reg[i]]
    ELSE Append(reg, v)

\* get_local_validators / get_external_validators and the two filters of validate
LocalOf(vs) == SelectSeq(vs, IsLocal)
ExternalOf(vs) == SelectSeq(vs, LAMBDA v : ~IsLocal(v))

NoneSel == [given |-> FALSE, types |-> <<>>]
ListSel(ts) == [given |-> TRUE, types |-> ts]

\* Python truthiness of validator_types
Truthy(s) == s.given /\ s.types # <<>>

RECURSIVE Resolve(_, _)
\* [self._validators[t] for t in validator_types if t in self._validators]
Resolve(reg, ts) ==
    IF ts = <<>> THEN <<>>
    ELSE IF HasType(reg, Head(ts))
         THEN <<Lookup(reg, Head(ts))>> \o Resolve(reg, Tail(ts))
         ELSE Resolve(reg, Tail(ts))

\* lines 97-100 with a plausible slip: the registry is filtered by the
\* selection, so the validators come out in registration order
SelectInRegistrationOrder(reg, s) ==
    IF Truthy(s)
    THEN SelectSeq(reg, LAMBDA v : \E k \in 1..Len(s.types) : s.types[k] = v.vtype)
    ELSE reg

\* lines 97-100 of validate
SelectValidators(reg, s) == IF Truthy(s) THEN Resolve(reg, s.types) ELSE reg

\* the synthetic result for an exception of a gathered local task
LocalErrorResult(m) ==
    ValidationResult("Unknown", "error", FALSE,
        <<ValidationIssue(ERROR, "VALIDATOR_ERROR", m)>>)

\* the synthetic result for an exception of an external validator
ExternalErrorResult(v, m) ==
    ValidationResult(Name(v), v.vtype, FALSE,
        <<ValidationIssue(ERROR, "VALIDATOR_ERROR", m)>>)

\* the loop over local_results with a plausible slip: exceptions are skipped
CollectLocalSkipsExceptions(os) ==
    LET good == SelectSeq(os, LAMBDA o : o.tag = "ok")
    IN  [k \in 1..Len(good) |-> good[k].res]

RECURSIVE CollectLocalReversed(_)
\* the loop over local_results, the results taken last first
CollectLocalReversed(os) ==
    IF os = <<>> THEN <<>>
    ELSE CollectLocalReversed(Tail(os))
         \o (IF Head(os).tag = "ok" THEN <<Head(os).res>>
             ELSE <<LocalErrorResult(Head(os).msg)>>)

RECURSIVE CollectLocal(_)
\* the loop over local_results after asyncio.gather(..., return_exceptions=True)
CollectLocal(os) ==
    IF os = <<>> THEN <<>>
    ELSE (IF Head(os).tag = "ok" THEN <<Head(os).res>>
          ELSE <<LocalErrorResult(Head(os).msg)>>) \o CollectLocal(Tail(os))

\* local validate of validator v on document d, over everything its environment can do
LocalOutcomes(v, d) ==
    IF v.kind = "xsd"
    THEN {XSDValidate(v, d, schema, check, nerr) :
             schema \in BOOLEAN, check \in XSDChecks, nerr \in 1..MaxIssues}
    ELSE {SchematronValidate(v, d, xslt, run, svrl) :
             xslt \in BOOLEAN, run \in SchRuns, svrl \in SeqUpTo(SvrlEntries, MaxIssues)}

(***************************************************************************)
(* The components a specification does not run stay as they are here.      *)
(***************************************************************************)
NoLocalCall == [kind |-> "none"]
NoDetect == [called |-> FALSE]
NoTransform == [op |-> "none"]
NoRequest == [endpoint |-> "none"]
NoStoreCall == [op |-> "none"]

CompareOff == comparison = <<>>

LocalOff ==
    /\ xsdFiles = <<>> /\ schemaCache = {} /\ lcall = NoLocalCall

DetectOff == detected = NoDetect

TransformOff ==
    /\ saxonAvailable = FALSE /\ lxmlCache = <<>>
    /\ builtinMappers = <<>> /\ userMappers = <<>>
    /\ tcall = NoTransform
    /\ compilations = <<>>

RouterOff == rpc = "off" /\ request = NoRequest /\ fileIdx = 0 /\ entries = <<>>

StoreOff == scall = NoStoreCall

NoReport == [parsed |-> FALSE]
HelgerOff == hcall = NoReport

RaceOff == raceCache = <<>> /\ workers = <<>>

PaceOff == ploop = 0 /\ pnow = 0 /\ ptasks = <<>> /\ pcalls = <<>>

SideOff == StoreOff /\ HelgerOff /\ RaceOff /\ PaceOff

(***************************************************************************)
(* The state machine                                                       *)
(***************************************************************************)
NoDoc == [wellformed |-> TRUE, utf8 |-> TRUE]

BatchIdle ==
    /\ mode = "validate" /\ sel = NoneSel /\ doc = NoDoc /\ validators = <<>>
    /\ localRes = <<>> /\ extIdx = 1 /\ hpc = "out" /\ tEnter = 0 /\ results = <<>>
    /\ ret = NoReturn /\ now = 0 /\ calls = <<>> /\ invoked = <<>> /\ outcomes = <<>>

\* Before `_registry = ValidatorRegistry()` (routers/validation.py) has run.
RegistryOff ==
    /\ client = "none"
    /\ registry = <<>>
    /\ phase = "boot"
    /\ netFault = FALSE
    /\ BatchIdle

Init ==
    /\ client = "none"
    /\ registry = <<>>
    /\ phase = "boot"
    /\ netFault = FALSE
    /\ BatchIdle
    /\ CompareOff /\ LocalOff /\ DetectOff /\ TransformOff /\ RouterOff /\ SideOff

batchVars == <<mode, sel, doc, validators, localRes, extIdx, hpc, tEnter, results,
               ret, now, calls, invoked, outcomes>>

\* ValidatorRegistry.__init__ -> _register_defaults -> HelgerValidator.__init__:
\* with no client yet, zeep.Client(wsdl=WSDL_URL) fetches the WSDL; when the
\* remote authority cannot be reached it raises and no registry exists.
Construct ==
    /\ phase = "boot"
    /\ \E reachable \in BOOLEAN :
          IF client # "none" \/ reachable
          THEN /\ client' = "ready"
               /\ registry' = Defaults
               /\ phase' = "idle"
               /\ UNCHANGED netFault
          ELSE /\ phase' = "init_failed"
               /\ netFault' = TRUE
               /\ UNCHANGED <<client, registry>>
    /\ UNCHANGED batchVars
    /\ UNCHANGED offRegistry

\* The validators registered on top of the defaults: remote validators
\* (HelgerValidator with another validator_type) under each type name.
Registrable == {Validator(t, "helger") : t \in VTypes}

\* ValidatorRegistry.register, between batches
Register ==
    /\ phase = "idle"
    /\ \E v \in Registrable : registry' = RegisterIn(registry, v)
    /\ UNCHANGED <<client, phase, netFault>>
    /\ UNCHANGED batchVars
    /\ UNCHANGED offRegistry

\* ValidatorRegistry.validate up to the first await: lines 97-110
Begin(m, s, d) ==
    LET vs == SelectValidators(registry, s)
    IN  /\ mode' = m /\ sel' = s /\ doc' = d
        /\ validators' = vs
        /\ results' = <<>> /\ now' = 0 /\ calls' = <<>> /\ invoked' = <<>>
        /\ outcomes' = <<>> /\ extIdx' = 1 /\ hpc' = "out" /\ tEnter' = 0
        /\ IF vs = <<>>
           THEN /\ ret' = MultiValidationResult(<<>>, FALSE, 0, 0)
                /\ localRes' = <<>>
                /\ phase' = "done"
           ELSE /\ ret' = NoReturn
                /\ localRes' = [i \in 1..Len(LocalOf(vs)) |-> Pending]
                /\ phase' = IF LocalOf(vs) # <<>> THEN "local" ELSE "external"
        /\ UNCHANGED <<client, registry, netFault>>

Selections == {NoneSel} \cup {ListSel(ts) : ts \in SeqUpTo(TypeNames, MaxSel)}

\* a call of ValidatorRegistry.validate
StartValidate ==
    /\ phase = "idle"
    /\ \E s \in Selections, d \in Docs : Begin("validate", s, d)
    /\ UNCHANGED offRegistry

\* local_types of validate_local_only
LocalTypes(reg) == [i \in 1..Len(LocalOf(reg)) |-> LocalOf(reg)[i].vtype]

\* a call of ValidatorRegistry.validate_local_only
StartLocalOnly ==
    /\ phase = "idle"
    /\ \E d \in Docs : Begin("local_only", ListSel(LocalTypes(registry)), d)
    /\ UNCHANGED offRegistry

FirstPending == CHOOSE i \in 1..Len(localRes) :
                    /\ localRes[i] = Pending
                    /\ \A j \in 1..(i - 1) : localRes[j] # Pending

\* one gathered local task runs to completion (the tasks have no await inside,
\* so the event loop runs them one after another in creation order)
RunLocal ==
    /\ phase = "local"
    /\ \E i \in 1..Len(localRes) : localRes[i] = Pending
    /\ LET i == FirstPending
           v == LocalOf(validators)[i]
       IN  \E o \in LocalOutcomes(v, doc) :
              /\ localRes' = [localRes EXCEPT ![i] = o]
              /\ invoked' = Append(invoked, v)
              /\ outcomes' = Append(outcomes, [v |-> v, tag |-> o.tag, fault |-> FALSE])
    /\ UNCHANGED <<client, registry, phase, mode, sel, doc, validators, extIdx, hpc,
                   tEnter, results, ret, now, calls, netFault>>
    /\ UNCHANGED offRegistry

\* asyncio.gather returned: lines 115-129
JoinLocal ==
    /\ phase = "local"
    /\ \A i \in 1..Len(localRes) : localRes[i] # Pending
    /\ results' = CollectLocal(localRes)
    /\ phase' = "external"
    /\ UNCHANGED <<client, registry, mode, sel, doc, validators, localRes, extIdx, hpc,
                   tEnter, ret, now, calls, invoked, outcomes, netFault>>
    /\ UNCHANGED offRegistry

\* `for v in external`: v.validate is entered; HelgerValidator.validate decodes
\* the document and sleeps; a UnicodeDecodeError leaves validate and is caught
\* by the registry (lines 136-147)
ExtEnter ==
    /\ phase = "external" /\ hpc = "out"
    /\ extIdx <= Len(ExternalOf(validators))
    /\ LET v == ExternalOf(validators)[extIdx]
       IN  /\ invoked' = Append(invoked, v)
           /\ IF HelgerDecodes(doc)
              THEN /\ tEnter' = now
                   /\ now' = now + PacingDelay(v)
                   /\ hpc' = "slept"
                   /\ UNCHANGED <<results, extIdx, outcomes>>
              ELSE /\ results' = Append(results, ExternalErrorResult(v, "UnicodeDecodeError"))
                   /\ outcomes' = Append(outcomes, [v |-> v, tag |-> "exc", fault |-> FALSE])
                   /\ extIdx' = extIdx + 1
                   /\ UNCHANGED <<tEnter, now, hpc>>
    /\ UNCHANGED <<client, registry, phase, mode, sel, doc, validators, localRes, ret,
                   calls, netFault>>
    /\ UNCHANGED offRegistry

\* self._service.validate(...) and the rest of HelgerValidator.validate; the
\* registry appends the result (line 135)
ExtCall ==
    /\ phase = "external" /\ hpc = "slept"
    /\ LET v == ExternalOf(validators)[extIdx]
       IN  /\ calls' = Append(calls, [v |-> v, entered |-> tEnter, start |-> now,
                                      end |-> now + CallMs])
           /\ now' = now + CallMs
           /\ \E fault \in BOOLEAN, report \in SeqUpTo(ReportItems, MaxIssues) :
                 /\ outcomes' = Append(outcomes, [v |-> v, tag |-> "ok", fault |-> fault])
                 /\ IF fault
                    THEN /\ results' = Append(results, HelgerConnection(v))
                         /\ netFault' = TRUE
                    ELSE /\ results' = Append(results, HelgerReportResult(v, report))
                         /\ UNCHANGED netFault
    /\ extIdx' = extIdx + 1
    /\ hpc' = "out"
    /\ tEnter' = 0
    /\ UNCHANGED <<client, registry, phase, mode, sel, doc, validators, localRes, ret,
                   invoked>>
    /\ UNCHANGED offRegistry

\* lines 149-159: aggregate and return
Aggregate ==
    /\ phase = "external" /\ hpc = "out"
    /\ extIdx > Len(ExternalOf(validators))
    /\ ret' = MultiValidationResult(results, AllSuccess(results), SumErrors(results),
                                    SumWarnings(results))
    /\ phase' = "done"
    /\ UNCHANGED <<client, registry, mode, sel, doc, validators, localRes, extIdx, hpc,
                   tEnter, results, now, calls, invoked, outcomes, netFault>>
    /\ UNCHANGED offRegistry

\* the caller has consumed the result; the registry serves the next batch
Finish ==
    /\ phase = "done"
    /\ phase' = "idle"
    /\ netFault' = FALSE
    /\ mode' = "validate" /\ sel' = NoneSel /\ doc' = NoDoc /\ validators' = <<>>
    /\ localRes' = <<>> /\ extIdx' = 1 /\ hpc' = "out" /\ tEnter' = 0
    /\ results' = <<>> /\ ret' = NoReturn /\ now' = 0 /\ calls' = <<>>
    /\ invoked' = <<>> /\ outcomes' = <<>>
    /\ UNCHANGED <<client, registry>>
    /\ UNCHANGED offRegistry

Next ==
    \/ Construct
    \/ Register
    \/ StartValidate
    \/ StartLocalOnly
    \/ RunLocal
    \/ JoinLocal
    \/ ExtEnter
    \/ ExtCall
    \/ Aggregate
    \/ Finish

Spec == Init /\ [][Next]_vars

(***************************************************************************)
(* Properties                                                              *)
(***************************************************************************)
Done == phase = "done"

\* number of issues of severity sev over a result list, counted issue by issue
RECURSIVE CountSeverity(_, _)
CountSeverity(rs, sev) ==
    IF rs = <<>> THEN 0
    ELSE Cardinality({k \in 1..Len(Head(rs).issues) : Head(rs).issues[k].severity = sev})
         + CountSeverity(Tail(rs), sev)

\* the elements of the selection that name a registered validator type
KnownSelected == SelectSeq(sel.types, LAMBDA t : \E i \in 1..Len(registry) : registry[i].vtype = t)

\* position of a validator in the registry
RegIndex(v) == CHOOSE i \in 1..Len(registry) : registry[i] = v

\* C1 (as stated): for every selection the returned overall_success equals
\* all(r.success for r in results); with an empty result list it is true.
C1_OverallSuccessIsAll ==
    Done => (ret.overall_success <=> \A k \in 1..Len(ret.results) : ret.results[k].success)

\* C1 (amended): whenever the result list is non-empty, overall_success equals
\* all(r.success for r in results); when no selected type resolves to a
\* registered validator the result list is empty and overall_success is false.
C1_OverallSuccessAmended ==
    Done =>
        IF ret.results # <<>>
        THEN ret.overall_success <=> \A k \in 1..Len(ret.results) : ret.results[k].success
        ELSE /\ ~ret.overall_success
             /\ validators = <<>>

C1_Witness ==
    /\ Done
    /\ Len(ret.results) >= 2
    /\ ret.results[1].success
    /\ ~ret.results[Len(ret.results)].success
    /\ ~ret.overall_success

\* C2: validate_local_only never invokes a validator that is not local, makes
\* no remote call, and its results come from local validators only.
C2_LocalOnlyRunsNoRemote ==
    mode = "local_only" =>
        /\ \A k \in 1..Len(invoked) : IsLocal(invoked[k])
        /\ \A k \in 1..Len(outcomes) : IsLocal(outcomes[k].v)
        /\ calls = <<>>

\* C3: the result list has exactly one entry for each element of the selection
\* list that names a registered type, whatever the validators return or raise.
C3_OneEntryPerKnownSelected ==
    (Done /\ sel.given) => Len(ret.results) = Len(KnownSelected)

\* C4: a validator that raises contributes a synthetic failed result with exactly
\* one Error issue VALIDATOR_ERROR (validator_type "error" when it is local),
\* the batch goes on to return, and every selected validator is invoked.
C4_RaiseBecomesResult ==
    /\ (phase \in {"local", "external"}) =>
           ENABLED (RunLocal \/ JoinLocal \/ ExtEnter \/ ExtCall \/ Aggregate)
    /\ (Done /\ validators # <<>>) =>
           /\ Len(ret.results) = Len(outcomes)
           /\ invoked = LocalOf(validators) \o ExternalOf(validators)
           /\ \A k \in 1..Len(outcomes) :
                 outcomes[k].tag = "exc" =>
                     /\ ~ret.results[k].success
                     /\ Len(ret.results[k].issues) = 1
                     /\ ret.results[k].issues[1].severity = "error"
                     /\ ret.results[k].issues[1].rule_id = "VALIDATOR_ERROR"
                     /\ IsLocal(outcomes[k].v) => ret.results[k].validator_type = "error"
           /\ \A k \in 1..Len(outcomes) :
                 outcomes[k].tag = "ok" =>
                     /\ ret.results[k].validator_type = outcomes[k].v.vtype
                     /\ \A j \in 1..Len(ret.results[k].issues) :
                           ret.results[k].issues[j].rule_id # "VALIDATOR_ERROR"

C4_Witness ==
    /\ Done
    /\ Len(outcomes) >= 3
    /\ \E i, j, k \in 1..Len(outcomes) :
          /\ i < j /\ j < k
          /\ IsLocal(outcomes[i].v) /\ outcomes[i].tag = "exc"
          /\ ~IsLocal(outcomes[j].v) /\ outcomes[j].tag = "exc"
          /\ ~IsLocal(outcomes[k].v)

\* C5: on a document that is not well-formed every validator returns
\* success = false with first issue XML_SYNTAX, and no remote call is made.
C5_MalformedShortCircuits ==
    (Done /\ ~doc.wellformed) =>
        /\ calls = <<>>
        /\ \A k \in 1..Len(outcomes) :
              outcomes[k].tag = "ok" =>
                  /\ ~ret.results[k].success
                  /\ ret.results[k].issues # <<>>
                  /\ ret.results[k].issues[1].rule_id = "XML_SYNTAX"

\* C6: remote calls of one batch never overlap, and each of them, the first
\* included, starts only after the validator's full pacing delay has elapsed
\* since validate was entered, hence since the previous remote call returned.
C6_PacedSequentialCalls ==
    /\ \A k \in 1..Len(calls) :
          /\ calls[k].start >= calls[k].entered + RATE_LIMIT_MS
          /\ calls[k].end >= calls[k].start
          /\ k > 1 => /\ calls[k].entered >= calls[k - 1].end
                      /\ calls[k].start >= calls[k - 1].end + RATE_LIMIT_MS
    /\ hpc = "slept" =>
          /\ now >= tEnter + RATE_LIMIT_MS
          /\ calls # <<>> => now >= calls[Len(calls)].end + RATE_LIMIT_MS

C6_Witness ==
    /\ Len(calls) >= 2
    /\ calls[1].entered = 0
    /\ calls[2].start > calls[1].end

\* C7 (as stated): external validators are invoked in registration order,
\* whatever the order of their type names in the selection.
C7_ExternalInRegistrationOrder ==
    LET ext == ExternalOf(invoked)
    IN  \A i, j \in 1..Len(ext) : i < j => RegIndex(ext[i]) <= RegIndex(ext[j])

\* C7 (amended): external validators are invoked one after another in the
\* order of their type names in the selection list (a type named twice is
\* invoked twice); with selection None or empty, in registration order.
C7_ExternalInSelectionOrder ==
    Done =>
        LET ext == ExternalOf(invoked)
            named == SelectSeq(KnownSelected, LAMBDA t : ~IsLocal(Lookup(registry, t)))
        IN  IF sel.given /\ sel.types # <<>>
            THEN /\ Len(ext) = Len(named)
                 /\ \A k \in 1..Len(ext) : ext[k].vtype = named[k]
            ELSE ext = ExternalOf(registry)

C7_Witness ==
    /\ Done
    /\ sel.given
    /\ Len(ExternalOf(invoked)) = 2
    /\ RegIndex(ExternalOf(invoked)[1]) > RegIndex(ExternalOf(invoked)[2])

\* C8: total_errors is the number of Error issues over all results and
\* total_warnings the number of Warning issues; Info issues count in neither.
C8_TotalsAreSums ==
    Done =>
        /\ ret.total_errors = CountSeverity(ret.results, "error")
        /\ ret.total_warnings = CountSeverity(ret.results, "warning")

C8_Witness ==
    /\ Done
    /\ Len(ret.results) >= 3
    /\ ret.total_errors >= 1
    /\ ret.total_warnings >= 1
    /\ CountSeverity(ret.results, "info") >= 1

\* C9: with validator_types = [] validate invokes no validator and returns an
\* empty result list with both totals zero.
C9_EmptySelectionRunsNothing ==
    (Done /\ mode = "validate" /\ sel.given /\ sel.types = <<>>) =>
        /\ invoked = <<>>
        /\ ret.results = <<>>
        /\ ret.total_errors = 0
        /\ ret.total_warnings = 0

\* C10: when the remote authority is unreachable or faults, the failure is
\* confined to one result (success = false, exactly one Error issue
\* HELGER_CONNECTION): the registry still serves, the local validators of the
\* batch still return their results and the batch is not aborted.
C10_RemoteFaultConfined ==
    netFault =>
        /\ phase # "init_failed"
        /\ Done =>
              /\ Len(ret.results) = Len(validators)
              /\ \A k \in 1..Len(outcomes) :
                    outcomes[k].fault =>
                        /\ ~ret.results[k].success
                        /\ Len(ret.results[k].issues) = 1
                        /\ ret.results[k].issues[1].severity = "error"
                        /\ ret.results[k].issues[1].rule_id = "HELGER_CONNECTION"

\* C11: every result a local validator returns (XSDValidator.validate,
\* SchematronValidator.validate), on every path (syntax error, no schema or
\* rules, valid, invalid, transform error), has success = TRUE exactly when
\* none of its issues has severity Error.
SuccessIffNoError(r) ==
    r.success = (\A k \in 1..Len(r.issues) : r.issues[k].severity # ERROR)

C11_LocalSuccessIffNoError ==
    \A i \in 1..Len(localRes) :
        localRes[i].tag = "ok" => SuccessIffNoError(localRes[i].res)

\* a batch in which the structural validator found the document invalid and
\* the rule-based validator returned a failed assertion that is no Error
C11_Witness ==
    \E i, j \in 1..Len(localRes) :
        /\ localRes[i].tag = "ok" /\ ~localRes[i].res.success
        /\ \E k \in 1..Len(localRes[i].res.issues) :
              localRes[i].res.issues[k].rule_id = "XSD_INVALID"
        /\ localRes[j].tag = "ok" /\ localRes[j].res.success
        /\ \E k \in 1..Len(localRes[j].res.issues) :
              /\ localRes[j].res.issues[k].rule_id \in RuleIds
              /\ localRes[j].res.issues[k].severity = WARNING

(***************************************************************************)
(* xsd.py: schema resolution, and the specification of direct calls of     *)
(* XSDValidator.validate(xml_bytes, schema_path, auto_detect).  A document *)
(* comes with the namespace of its root element; the schema directory      *)
(* holds files that load as a schema or fail to.                           *)
(***************************************************************************)
InvoiceNs == "urn:oasis:names:specification:ubl:schema:xsd:Invoice-2"
CreditNoteNs == "urn:oasis:names:specification:ubl:schema:xsd:CreditNote-2"
OtherNs == "urn:example:other"
NoNs == ""
Namespaces == {NoNs, InvoiceNs, CreditNoteNs, OtherNs}

\* XSDValidator.SCHEMA_MAP
SCHEMA_MAP ==
    (InvoiceNs :> "UBL-Invoice-2.1.xsd") @@ (CreditNoteNs :> "UBL-CreditNote-2.1.xsd")

SchemaNames == {"UBL-Invoice-2.1.xsd", "UBL-CreditNote-2.1.xsd"}

\* the schema_path argument: None, a name relative to XSD_DIR, or the
\* absolute path of that name under XSD_DIR
NoPath == [form |-> "none", file |-> ""]
SchemaPaths == {NoPath} \cup [form : {"relative", "absolute"}, file : SchemaNames]

\* a schema is named by the file it was compiled from; NoSchema is None
NoSchema == ""

\* _load_schema: the schema and the cache it leaves
LoadSchema(cache, files, path) ==
    IF path \in cache THEN [schema |-> path.file, cache |-> cache]
    ELSE IF path.file \notin DOMAIN files THEN [schema |-> NoSchema, cache |-> cache]
    ELSE IF ~files[path.file] THEN [schema |-> NoSchema, cache |-> cache]
    ELSE [schema |-> path.file, cache |-> cache \cup {path}]

\* _detect_schema
DetectSchema(cache, files, ns) ==
    IF ns = NoNs \/ ns \notin DOMAIN SCHEMA_MAP
    THEN [schema |-> NoSchema, cache |-> cache]
    ELSE LoadSchema(cache, files, [form |-> "relative", file |-> SCHEMA_MAP[ns]])

\* lines 88-93 of validate: an override that loads nothing is not followed
\* by detection
GetSchema(cache, files, path, auto, ns) ==
    IF path # NoPath THEN LoadSchema(cache, files, path)
    ELSE IF auto THEN DetectSchema(cache, files, ns)
    ELSE [schema |-> NoSchema, cache |-> cache]

XSDv == Validator("xsd", "xsd")

\* the schema directory as deployed: any of the files, loadable or not
XsdInit ==
    /\ RegistryOff /\ CompareOff /\ DetectOff /\ TransformOff /\ RouterOff /\ SideOff
    /\ \E present \in SUBSET SchemaNames : xsdFiles \in [present -> BOOLEAN]
    /\ schemaCache = {}
    /\ lcall = NoLocalCall

\* XSDValidator.validate
XsdCall ==
    /\ \E d \in Docs, ns \in Namespaces, path \in SchemaPaths, auto \in BOOLEAN,
          check \in XSDChecks, nerr \in 1..MaxIssues :
          LET got == IF d.wellformed
                     THEN GetSchema(schemaCache, xsdFiles, path, auto, ns)
                     ELSE [schema |-> NoSchema, cache |-> schemaCache]
          IN  /\ schemaCache' = got.cache
              /\ lcall' = [kind |-> "xsd", doc |-> d, ns |-> ns, path |-> path,
                           auto |-> auto, schema |-> got.schema,
                           out |-> XSDValidate(XSDv, d, got.schema # NoSchema, check, nerr)]
    /\ UNCHANGED <<xsdFiles, registryVars, compareVars, detectVars, sideVars, transformVars,
                   routerVars>>

\* rules_sync: the UBL schemas are downloaded and copied into XSD_DIR
SyncSchemas ==
    /\ xsdFiles # [n \in SchemaNames |-> TRUE]
    /\ xsdFiles' = [n \in SchemaNames |-> TRUE]
    /\ UNCHANGED <<schemaCache, lcall, registryVars, compareVars, detectVars, sideVars,
                   transformVars, routerVars>>

XsdNext ==
    \/ XsdCall
    \/ SyncSchemas

XsdSpec == XsdInit /\ [][XsdNext]_vars

\* the file a call looks for: the override, else the table entry of the namespace
WantedFile(c) ==
    IF c.path # NoPath THEN c.path.file
    ELSE IF c.auto /\ c.ns \in DOMAIN SCHEMA_MAP THEN SCHEMA_MAP[c.ns]
    ELSE NoSchema

\* C18: for every well-formed document for which no schema resolves (no
\* override and no namespace match, or the schema file is absent),
\* XSDValidator.validate returns success = TRUE with exactly one issue, of
\* severity Info.
C18_NoSchemaIsInfoOnly ==
    (/\ lcall.kind = "xsd"
     /\ lcall.doc.wellformed
     /\ WantedFile(lcall) \notin DOMAIN xsdFiles) =>
        /\ lcall.out.tag = "ok"
        /\ lcall.out.res.success
        /\ Len(lcall.out.res.issues) = 1
        /\ lcall.out.res.issues[1].severity = INFO

\* an override naming an absent file, on a document whose namespace has a
\* loadable schema in the directory
C18_Witness ==
    /\ lcall.kind = "xsd"
    /\ lcall.doc.wellformed
    /\ lcall.path # NoPath
    /\ lcall.path.file \notin DOMAIN xsdFiles
    /\ lcall.auto
    /\ lcall.ns \in DOMAIN SCHEMA_MAP
    /\ SCHEMA_MAP[lcall.ns] \in DOMAIN xsdFiles
    /\ xsdFiles[SCHEMA_MAP[lcall.ns]]
    /\ lcall.out.tag = "ok"
    /\ lcall.out.res.success
    /\ lcall.out.res.issues[1].rule_id = "XSD_NO_SCHEMA"

(***************************************************************************)
(* registry.py: validate_with_comparison.  The batch is the one of         *)
(* ValidatorRegistry.validate; when validate returns, the comparison       *)
(* matrix is built in the same step.  row["validators"] is a dict: it is   *)
(* modelled as the sequence of its items in insertion order, an assignment *)
(* to a name already present replacing the item in place.                  *)
(***************************************************************************)

\* the rule ids of the model in the order sorted() gives them (code points)
RuleOrder ==
    <<"HELGER_CONNECTION", "R1", "SCH_NO_RULES", "SCH_TRANSFORM_ERROR",
      "VALIDATOR_ERROR", "XML_SYNTAX", "XSD_INVALID", "XSD_NO_SCHEMA">>

\* all_rule_ids
AllRuleIds(rs) ==
    UNION {{rs[i].issues[k].rule_id : k \in 1..Len(rs[i].issues)} : i \in 1..Len(rs)}

\* matching = [i for i in r.issues if i.rule_id == rule_id]
Matching(r, rule) == SelectSeq(r.issues, LAMBDA i : i.rule_id = rule)

\* the value stored under r.validator_name
RowItem(r, rule) ==
    IF Matching(r, rule) # <<>>
    THEN [name |-> r.validator_name, found |-> TRUE,
          severity |-> Matching(r, rule)[1].severity,
          message |-> Matching(r, rule)[1].message]
    ELSE [name |-> r.validator_name, found |-> FALSE, severity |-> "", message |-> ""]

\* d[item.name] = item
DictSet(d, item) ==
    IF \E k \in 1..Len(d) : d[k].name = item.name
    THEN [k \in 1..Len(d) |-> IF d[k].name = item.name THEN item ELSE d[k]]
    ELSE Append(d, item)

RECURSIVE RowValidators(_, _)
\* the loop `for r in result.results` of one row
RowValidators(rs, rule) ==
    IF rs = <<>> THEN <<>>
    ELSE DictSet(RowValidators(SubSeq(rs, 1, Len(rs) - 1), rule),
                 RowItem(rs[Len(rs)], rule))

\* the loop `for rule_id in sorted(all_rule_ids)`
ComparisonMatrix(rs) ==
    LET ids == SelectSeq(RuleOrder, LAMBDA x : x \in AllRuleIds(rs))
    IN  [k \in 1..Len(ids) |->
            [rule_id |-> ids[k], validators |-> RowValidators(rs, ids[k])]]

\* validator_types of validate_with_comparison is a list
CompareSelections == {ListSel(ts) : ts \in SeqUpTo(TypeNames, MaxSel)}

CompareInit ==
    /\ RegistryOff
    /\ CompareOff /\ LocalOff /\ DetectOff /\ TransformOff /\ RouterOff /\ SideOff

\* a call of validate_with_comparison, up to the first await of validate;
\* when validate returns at once (no validator selected) the matrix is empty
StartCompare ==
    /\ phase = "idle"
    /\ \E s \in CompareSelections, d \in Docs : Begin("compare", s, d)
    /\ comparison' = ComparisonMatrix(<<>>)
    /\ UNCHANGED <<localVars, detectVars, sideVars, transformVars, routerVars>>

\* validate returns (lines 149-159) and the matrix is built (lines 176-202)
AggregateCompare ==
    /\ phase = "external" /\ hpc = "out" /\ mode = "compare"
    /\ extIdx > Len(ExternalOf(validators))
    /\ ret' = MultiValidationResult(results, AllSuccess(results), SumErrors(results),
                                    SumWarnings(results))
    /\ comparison' = ComparisonMatrix(results)
    /\ phase' = "done"
    /\ UNCHANGED <<client, registry, mode, sel, doc, validators, localRes, extIdx, hpc,
                   tEnter, results, now, calls, invoked, outcomes, netFault>>
    /\ UNCHANGED <<localVars, detectVars, sideVars, transformVars, routerVars>>

\* the caller has consumed the comparison
FinishCompare ==
    /\ phase = "done"
    /\ phase' = "idle"
    /\ netFault' = FALSE
    /\ mode' = "validate" /\ sel' = NoneSel /\ doc' = NoDoc /\ validators' = <<>>
    /\ localRes' = <<>> /\ extIdx' = 1 /\ hpc' = "out" /\ tEnter' = 0
    /\ results' = <<>> /\ ret' = NoReturn /\ now' = 0 /\ calls' = <<>>
    /\ invoked' = <<>> /\ outcomes' = <<>>
    /\ comparison' = <<>>
    /\ UNCHANGED <<client, registry>>
    /\ UNCHANGED <<localVars, detectVars, sideVars, transformVars, routerVars>>

CompareNext ==
    \/ Construct
    \/ StartCompare
    \/ RunLocal
    \/ JoinLocal
    \/ ExtEnter
    \/ ExtCall
    \/ AggregateCompare
    \/ FinishCompare

CompareSpec == CompareInit /\ [][CompareNext]_vars

\* r reported at least one issue with that rule id
Reported(r, rule) == \E k \in 1..Len(r.issues) : r.issues[k].rule_id = rule

\* C16: validate_with_comparison returns one row per distinct rule_id seen
\* across all results, and in each row one entry per participating validator
\* result, found being TRUE exactly when that result holds an issue with the
\* rule_id; also when two results carry the same validator_name.
C16_ComparisonMatrix ==
    (phase = "done" /\ mode = "compare") =>
        /\ Len(comparison) = Cardinality(AllRuleIds(ret.results))
        /\ {comparison[k].rule_id : k \in 1..Len(comparison)} = AllRuleIds(ret.results)
        /\ \A k \in 1..Len(comparison) :
              /\ Len(comparison[k].validators) = Len(ret.results)
              /\ \A i \in 1..Len(ret.results) :
                    comparison[k].validators[i].found
                        = Reported(ret.results[i], comparison[k].rule_id)

(***************************************************************************)
(* transformer.py: detect_xslt_version.  The regular expression            *)
(*   <xsl:(?:stylesheet|transform)[^>]+version\s*=\s*["'](\d+\.\d+)["']      *)
(* is searched in the stylesheet text.  The text is modelled by the start  *)
(* tag of its root element: the prefix bound to the XSLT namespace, the    *)
(* local name, and the attributes in document order, each with its name,   *)
(* its value as a sequence of characters, the white space around "=" and   *)
(* the quote.                                                              *)
(***************************************************************************)
MaxAttrs == 2      \* most attributes of a root start tag

\* class XSLTVersion
V1_0 == "1.0"
V2_0 == "2.0"
V3_0 == "3.0"
XSLTVersions == {V1_0, V2_0, V3_0}

Prefixes == {"xsl", "t"}
RootNames == {"stylesheet", "transform"}
Quotes == {"dq", "sq"}

\* attributes a root start tag may carry
VersionValues ==
    {<<"1", ".", "0">>, <<"1", ".", "1">>, <<"2", ".", "0">>, <<"3", ".", "0">>, <<"2">>}
VersionAttrs ==
    [name : {"version"}, value : VersionValues, spaced : BOOLEAN, quote : Quotes]
OtherAttrs ==
    [name : {"xmlns:xsl"}, value : {<<"u">>}, spaced : {FALSE}, quote : {"dq"}]
    \cup [name : {"id"}, value : {<<"a">>, <<"a", ">", "b">>}, spaced : {FALSE},
          quote : {"dq"}]
    \cup [name : {"ext:version"}, value : {<<"1", ".", "0">>, <<"3", ".", "0">>},
          spaced : {FALSE}, quote : {"dq"}]
Attrs == VersionAttrs \cup OtherAttrs

\* a well-formed start tag carries no attribute name twice
DistinctNames(as) == \A i, j \in 1..Len(as) : i # j => as[i].name # as[j].name

Tags ==
    {t \in [prefix : Prefixes, root : RootNames, attrs : SeqUpTo(Attrs, MaxAttrs)] :
        DistinctNames(t.attrs)}

\* text in which the expression finds no root declaration
NoDecl == [prefix |-> "", root |-> "", attrs |-> <<>>]

Digits == {"0", "1", "2", "3", "4", "5", "6", "7", "8", "9"}

\* (\d+\.\d+) matches the whole value
DottedNumber(v) ==
    \E k \in 2..(Len(v) - 1) :
        /\ v[k] = "."
        /\ \A j \in (1..Len(v)) \ {k} : v[j] \in Digits

\* the text of an attribute ends with version\s*=\s*["'](\d+\.\d+)["']:
\* any white space and either quote, the name matched from its end
VersionPattern(a) ==
    /\ a.name \in {"version", "ext:version"}
    /\ a.spaced \in BOOLEAN
    /\ a.quote \in Quotes
    /\ DottedNumber(a.value)

\* [^>]+ : the attributes up to position k hold no ">"
NoGtBefore(as, k) ==
    \A j \in 1..(k - 1) : \A i \in 1..Len(as[j].value) : as[j].value[i] # ">"

\* where re.search can end [^>]+
MatchPositions(t) ==
    IF t.prefix = "xsl" /\ t.root \in RootNames
    THEN {k \in 1..Len(t.attrs) : VersionPattern(t.attrs[k]) /\ NoGtBefore(t.attrs, k)}
    ELSE {}

\* version_match.group(1): [^>]+ is greedy, so the last position wins
MatchedGroup(t) ==
    LET k == CHOOSE m \in MatchPositions(t) : \A n \in MatchPositions(t) : n <= m
    IN  t.attrs[k].value

\* detect_xslt_version
DetectXsltVersion(t) ==
    IF MatchPositions(t) # {}
    THEN IF MatchedGroup(t)[1] = "3" THEN V3_0
         ELSE IF MatchedGroup(t)[1] = "2" THEN V2_0
         ELSE V1_0
    ELSE V1_0

DetectInit ==
    /\ RegistryOff /\ CompareOff /\ LocalOff /\ TransformOff /\ RouterOff /\ SideOff
    /\ detected = NoDetect

\* a call of detect_xslt_version on any stylesheet
DetectCall ==
    /\ \E t \in Tags :
          detected' = [called |-> TRUE, tag |-> t, level |-> DetectXsltVersion(t)]
    /\ UNCHANGED <<registryVars, compareVars, localVars, transformVars, routerVars, sideVars>>

DetectNext == DetectCall

DetectSpec == DetectInit /\ [][DetectNext]_vars

\* the level the root declaration states: the lexical value of its version
\* attribute, "3.x" or "2.x", anything else (or no attribute) being level 1
DeclaredLevel(t) ==
    IF \E k \in 1..Len(t.attrs) : t.attrs[k].name = "version"
    THEN LET v == t.attrs[CHOOSE k \in 1..Len(t.attrs) : t.attrs[k].name = "version"].value
         IN  IF DottedNumber(v) /\ v[1] = "3" /\ v[2] = "." THEN V3_0
             ELSE IF DottedNumber(v) /\ v[1] = "2" /\ v[2] = "." THEN V2_0
             ELSE V1_0
    ELSE V1_0

\* the same declaration up to the order of the attributes and the white
\* space and quotes around them
SameDeclaration(t, u) ==
    /\ t.prefix = u.prefix /\ t.root = u.root
    /\ {[name |-> t.attrs[k].name, value |-> t.attrs[k].value] : k \in 1..Len(t.attrs)}
         = {[name |-> u.attrs[k].name, value |-> u.attrs[k].value] : k \in 1..Len(u.attrs)}

\* C19: detect_xslt_version classifies the stylesheet by the version its
\* root declaration states ("3.x": level 3, "2.x": level 2, anything else or
\* no version attribute: level 1), whatever the order of the attributes and
\* the white space around them, and whatever was detected before.
C19_DetectIsPureClassifier ==
    detected.called =>
        /\ detected.level = DeclaredLevel(detected.tag)
        /\ \A u \in Tags :
              SameDeclaration(u, detected.tag) => DetectXsltVersion(u) = detected.level

(***************************************************************************)
(* transformer.py: transform, transform_with_mapper, _transform_lxml and   *)
(* _transform_saxon.  A stylesheet is its bytes: what the text shows of    *)
(* the root declaration (decl), whether the bytes parse as XML and compile *)
(* as a stylesheet, whether applying the compiled stylesheet faults, and   *)
(* the MD5 digest of the bytes.  The stylesheets distinguished here have   *)
(* pairwise different digests.  Applying a compiled stylesheet to a parsed *)
(* document is a function of the two.                                      *)
(***************************************************************************)
NoneValue == "None"

StyleDecl(version) ==
    [prefix |-> "xsl", root |-> "stylesheet",
     attrs |-> <<[name |-> "version", value |-> version, spaced |-> FALSE, quote |-> "dq"],
                 [name |-> "xmlns:xsl", value |-> <<"u">>, spaced |-> FALSE, quote |-> "dq"]>>]

\* a Level-1 stylesheet that compiles and applies
SheetCopy ==
    [id |-> "copy", decl |-> StyleDecl(<<"1", ".", "0">>), wellformed |-> TRUE,
     compiles |-> TRUE, apply |-> "ok", digest |-> "md5-copy"]
\* a Level-1 stylesheet whose application faults (XSLTApplyError)
SheetFaulty ==
    [id |-> "faulty", decl |-> StyleDecl(<<"1", ".", "0">>), wellformed |-> TRUE,
     compiles |-> TRUE, apply |-> "error", digest |-> "md5-faulty"]
\* bytes that are no XML (b'not valid xslt at all')
SheetText ==
    [id |-> "text", decl |-> NoDecl, wellformed |-> FALSE,
     compiles |-> FALSE, apply |-> "error", digest |-> "md5-text"]
\* well-formed XML that is no stylesheet
SheetNoXslt ==
    [id |-> "noxslt", decl |-> StyleDecl(<<"1", ".", "0">>), wellformed |-> TRUE,
     compiles |-> FALSE, apply |-> "error", digest |-> "md5-noxslt"]
\* stylesheets declaring version 2.0 and 3.0
SheetV2 ==
    [id |-> "v2", decl |-> StyleDecl(<<"2", ".", "0">>), wellformed |-> TRUE,
     compiles |-> TRUE, apply |-> "ok", digest |-> "md5-v2"]
SheetV3 ==
    [id |-> "v3", decl |-> StyleDecl(<<"3", ".", "0">>), wellformed |-> TRUE,
     compiles |-> TRUE, apply |-> "ok", digest |-> "md5-v3"]

Stylesheets == {SheetCopy, SheetFaulty, SheetText, SheetNoXslt, SheetV2, SheetV3}

\* no stylesheet was read (mapper not found)
NoSheet ==
    [id |-> "", decl |-> NoDecl, wellformed |-> FALSE, compiles |-> FALSE,
     apply |-> "error", digest |-> ""]

\* a cache key that ignores the stylesheet
Md5Constant(sheet) == "md5"

\* hashlib.md5(xslt_bytes).hexdigest()
Md5(sheet) == sheet.digest

\* ET.XSLT(ET.fromstring(xslt_bytes)): the compiled stylesheet
Compile(sheet) == [of |-> sheet.id, apply |-> sheet.apply]

\* output bytes: ET.tostring(transform(xml_doc), ...) or result.encode("utf-8")
NoOutput == [by |-> NoneValue, of |-> "", doc |-> NoDoc]
Output(processor, compiled, d) == [by |-> processor, of |-> compiled.of, doc |-> d]

\* the dataclass TransformResult
TransformResult(ok, output, error, version, processor) ==
    [success |-> ok, output |-> output, error |-> error, xslt_version |-> version,
     processor |-> processor]

\* what a call leaves: its result, the cache, the processors it invoked
Left(res, cache, procs) ==
    [res |-> res, cache |-> cache, procs |-> procs, compiled |-> FALSE]

\* the call ran ET.XSLT(xslt_doc) to the end (line 162)
Compiling(left) == [left EXCEPT !.compiled = TRUE]

\* the count of compilations after a call on a stylesheet
Compiled(counts, sheet, left) ==
    IF ~left.compiled THEN counts
    ELSE IF Md5(sheet) \in DOMAIN counts
    THEN [counts EXCEPT ![Md5(sheet)] = @ + 1]
    ELSE counts @@ (Md5(sheet) :> 1)

\* _transform_lxml with the cache entry stored only once the document parsed
TransformLxmlCachesLate(cache, d, sheet) ==
    LET key == Md5(sheet)
        Fail(msg) == TransformResult(FALSE, NoOutput, msg, V1_0, "lxml")
        miss == key \notin DOMAIN cache
        Ran(left) == IF miss THEN Compiling(left) ELSE left
    IN  IF miss /\ ~sheet.wellformed
        THEN Left(Fail("XML parse error"), cache, <<"lxml">>)
        ELSE IF miss /\ ~sheet.compiles
        THEN Left(Fail("XSLT parse error"), cache, <<"lxml">>)
        ELSE LET cache1 == IF miss THEN cache @@ (key :> Compile(sheet)) ELSE cache
                 transform == cache1[key]
             IN  IF ~d.wellformed
                 THEN Ran(Left(Fail("XML parse error"), cache, <<"lxml">>))
                 ELSE IF transform.apply = "error"
                 THEN Ran(Left(Fail("XSLT transform error"), cache1, <<"lxml">>))
                 ELSE Ran(Left(TransformResult(TRUE, Output("lxml", transform, d),
                                               NoneValue, V1_0, "lxml"),
                               cache1, <<"lxml">>))

\* _transform_lxml with the cache entry stored before the stylesheet compiled
TransformLxmlCachesUncompiled(cache, d, sheet) ==
    LET key == Md5(sheet)
        Fail(msg) == TransformResult(FALSE, NoOutput, msg, V1_0, "lxml")
        miss == key \notin DOMAIN cache
        Ran(left) == IF miss THEN Compiling(left) ELSE left
    IN  IF miss /\ ~sheet.wellformed
        THEN Left(Fail("XML parse error"), cache, <<"lxml">>)
        ELSE IF miss /\ ~sheet.compiles
        THEN Left(Fail("XSLT parse error"), cache @@ (key :> Compile(sheet)), <<"lxml">>)
        ELSE LET cache1 == IF miss THEN cache @@ (key :> Compile(sheet)) ELSE cache
                 transform == cache1[key]
             IN  IF ~d.wellformed
                 THEN Ran(Left(Fail("XML parse error"), cache1, <<"lxml">>))
                 ELSE IF transform.apply = "error"
                 THEN Ran(Left(Fail("XSLT transform error"), cache1, <<"lxml">>))
                 ELSE Ran(Left(TransformResult(TRUE, Output("lxml", transform, d),
                                               NoneValue, V1_0, "lxml"),
                               cache1, <<"lxml">>))

\* _transform_lxml
TransformLxml(cache, d, sheet) ==
    LET key == Md5(sheet)
        Fail(msg) == TransformResult(FALSE, NoOutput, msg, V1_0, "lxml")
        miss == key \notin DOMAIN cache
        Ran(left) == IF miss THEN Compiling(left) ELSE left
    IN  IF miss /\ ~sheet.wellformed
        THEN Left(Fail("XML parse error"), cache, <<"lxml">>)
        ELSE IF miss /\ ~sheet.compiles
        THEN Left(Fail("XSLT parse error"), cache, <<"lxml">>)
        ELSE LET cache1 == IF miss THEN cache @@ (key :> Compile(sheet)) ELSE cache
                 transform == cache1[key]
             IN  IF ~d.wellformed
                 THEN Ran(Left(Fail("XML parse error"), cache1, <<"lxml">>))
                 ELSE IF transform.apply = "error"
                 THEN Ran(Left(Fail("XSLT transform error"), cache1, <<"lxml">>))
                 ELSE Ran(Left(TransformResult(TRUE, Output("lxml", transform, d),
                                               NoneValue, V1_0, "lxml"),
                               cache1, <<"lxml">>))

\* _transform_saxon, with SAXON_AVAILABLE: anything that goes wrong is caught
TransformSaxon(cache, d, sheet, version) ==
    IF ~d.utf8 \/ ~d.wellformed \/ ~sheet.wellformed \/ ~sheet.compiles
       \/ sheet.apply = "error"
    THEN Left(TransformResult(FALSE, NoOutput, "Saxon error", version, "saxon"),
              cache, <<"saxon">>)
    ELSE Left(TransformResult(TRUE, Output("saxon", Compile(sheet), d), NoneValue,
                              version, "saxon"),
              cache, <<"saxon">>)

\* the unsupported-version failure without its version
UnsupportedNoVersion(version) ==
    TransformResult(FALSE, NoOutput, "requires saxonche", NoneValue, NoneValue)

\* the failure of lines 119-123
Unsupported(version) ==
    TransformResult(FALSE, NoOutput, "requires saxonche", version, NoneValue)

\* force_version: None or a version
NoForce == NoneValue
Forces == {NoForce} \cup XSLTVersions

\* a lossy fallback to lxml when Saxon is missing
SelectProcessorFallback(version, saxon) ==
    IF version = V1_0 \/ ~saxon THEN "lxml" ELSE "saxon"

\* the processor the branches of lines 115-124 choose
SelectProcessor(version, saxon) ==
    IF version = V1_0 THEN "lxml"
    ELSE IF ~saxon THEN NoneValue
    ELSE "saxon"

\* transform
Transform(cache, saxon, d, sheet, force) ==
    LET version == IF force # NoForce THEN force ELSE DetectXsltVersion(sheet.decl)
        processor == SelectProcessor(version, saxon)
    IN  IF processor = "lxml" THEN TransformLxml(cache, d, sheet)
        ELSE IF processor = "saxon" THEN TransformSaxon(cache, d, sheet, version)
        ELSE Left(Unsupported(version), cache, <<>>)

\* a lookup that prefers the uploads
ResolveMapperUserFirst(builtin, user, name) ==
    IF name \in DOMAIN user THEN user[name]
    ELSE IF name \in DOMAIN builtin THEN builtin[name]
    ELSE NoSheet

\* the lookup of lines 136-140: the built-in directory, then the uploads
ResolveMapper(builtin, user, name) ==
    IF name \in DOMAIN builtin THEN builtin[name]
    ELSE IF name \in DOMAIN user THEN user[name]
    ELSE NoSheet

\* the failure of lines 141-144
MapperNotFound == TransformResult(FALSE, NoOutput, "Mapper not found", NoneValue, NoneValue)

\* transform_with_mapper
TransformWithMapper(cache, saxon, builtin, user, d, name) ==
    IF ResolveMapper(builtin, user, name) = NoSheet
    THEN Left(MapperNotFound, cache, <<>>)
    ELSE Transform(cache, saxon, d, ResolveMapper(builtin, user, name), NoForce)

\* a file name is the sequence of its parts: words, unsafe characters (" "),
\* path separators ("/") and the extensions ".xsl" / ".xslt"
BuiltinXsl == <<"builtin", ".xsl">>
BothXsl == <<"both", ".xsl">>
UserXsl == <<"user", ".xsl">>
MissingXsl == <<"missing", ".xsl">>
MapperNames == {BuiltinXsl, BothXsl, UserXsl, MissingXsl}

\* the mapper directories as deployed
TransformerUp ==
    /\ saxonAvailable \in BOOLEAN
    /\ lxmlCache = <<>>
    /\ builtinMappers = (BuiltinXsl :> SheetFaulty) @@ (BothXsl :> SheetCopy)
    /\ userMappers = (BothXsl :> SheetNoXslt) @@ (UserXsl :> SheetV2)
    /\ tcall = NoTransform
    /\ compilations = <<>>

TransformInit ==
    /\ RegistryOff /\ CompareOff /\ LocalOff /\ DetectOff /\ RouterOff /\ SideOff
    /\ TransformerUp

\* the same arguments as the call before
Repeats(op, d, sheet, name, force) ==
    /\ tcall.op = op
    /\ tcall.doc = d /\ tcall.sheet = sheet /\ tcall.name = name /\ tcall.force = force

\* the record of a call
Called(op, d, sheet, name, force, left) ==
    [op |-> op, doc |-> d, sheet |-> sheet, name |-> name, force |-> force,
     res |-> left.res, procs |-> left.procs, compiled |-> left.compiled,
     hit |-> Md5(sheet) \in DOMAIN lxmlCache,
     cacheSame |-> left.cache = lxmlCache,
     repeat |-> Repeats(op, d, sheet, name, force)]

\* a call of transform(xml_bytes, xslt_bytes, force_version)
TransformCall ==
    /\ \E d \in Docs, sheet \in Stylesheets, force \in Forces :
          LET left == Transform(lxmlCache, saxonAvailable, d, sheet, force)
          IN  /\ lxmlCache' = left.cache
              /\ tcall' = Called("transform", d, sheet, <<>>, force, left)
              /\ compilations' = Compiled(compilations, sheet, left)
    /\ UNCHANGED <<saxonAvailable, builtinMappers, userMappers>>
    /\ UNCHANGED <<registryVars, compareVars, localVars, detectVars, sideVars, routerVars>>

\* a call of transform_with_mapper(xml_bytes, mapper_name)
MapperCall ==
    /\ \E d \in Docs, name \in MapperNames :
          LET left == TransformWithMapper(lxmlCache, saxonAvailable, builtinMappers,
                                          userMappers, d, name)
          IN  /\ lxmlCache' = left.cache
              /\ tcall' = Called("mapper", d,
                                 ResolveMapper(builtinMappers, userMappers, name),
                                 name, NoForce, left)
              /\ compilations' = Compiled(compilations,
                                          ResolveMapper(builtinMappers, userMappers, name),
                                          left)
    /\ UNCHANGED <<saxonAvailable, builtinMappers, userMappers>>
    /\ UNCHANGED <<registryVars, compareVars, localVars, detectVars, sideVars, routerVars>>

TransformNext ==
    \/ TransformCall
    \/ MapperCall

TransformSpec == TransformInit /\ [][TransformNext]_vars

\* the version a call works with: the forced one, else the detected one
CallVersion(c) ==
    IF c.force # NoForce THEN c.force ELSE DetectXsltVersion(c.sheet.decl)

\* the call read a stylesheet (transform, or a mapper that resolved)
HasSheet(c) == c.op = "transform" \/ (c.op = "mapper" /\ c.sheet # NoSheet)

(***************************************************************************)
(* C12: when the version a call works with (forced, else detected) is 2.0  *)
(* or 3.0 and Saxon is unavailable, the call returns a failure carrying    *)
(* that version and no output, lxml is not invoked and the compiled-       *)
(* stylesheet cache is unchanged.                                          *)
(***************************************************************************)
C12_UnsupportedVersionFailsClosed ==
    (HasSheet(tcall) /\ CallVersion(tcall) \in {V2_0, V3_0} /\ ~saxonAvailable) =>
        /\ ~tcall.res.success
        /\ tcall.res.xslt_version = CallVersion(tcall)
        /\ tcall.res.output = NoOutput
        /\ tcall.procs = <<>>
        /\ tcall.cacheSame

\* a forced 2.0 on a stylesheet lxml could run, with one stylesheet cached
C12_Witness ==
    /\ tcall.op = "transform" /\ ~saxonAvailable
    /\ tcall.force = V2_0 /\ tcall.sheet = SheetCopy /\ tcall.doc.wellformed
    /\ lxmlCache # <<>>
    /\ ~tcall.res.success

(***************************************************************************)
(* C13: on the lxml path a failure names its cause: a malformed document   *)
(* (with a sound stylesheet) gives the XML parse error, a malformed        *)
(* stylesheet with a well-formed document gives the XSLT parse error and   *)
(* not the XML parse error, a fault while applying gives the XSLT          *)
(* transform error.                                                        *)
(***************************************************************************)
C13_FailureNamesItsCause ==
    (tcall.op = "transform" /\ tcall.procs = <<"lxml">>) =>
        LET d == tcall.doc
            sheet == tcall.sheet
            sound == sheet.wellformed /\ sheet.compiles
        IN  /\ (~d.wellformed /\ sound) =>
                  (~tcall.res.success /\ tcall.res.error = "XML parse error")
            /\ (d.wellformed /\ ~sound) =>
                  (~tcall.res.success /\ tcall.res.error = "XSLT parse error")
            /\ (d.wellformed /\ sound /\ sheet.apply = "error") =>
                  (~tcall.res.success /\ tcall.res.error = "XSLT transform error")

(***************************************************************************)
(* C14 as stated: every result of transform and transform_with_mapper      *)
(* carries a version.                                                      *)
(***************************************************************************)
C14_AlwaysVersion ==
    tcall.op # "none" => tcall.res.xslt_version \in XSLTVersions

(***************************************************************************)
(* C14: every result of transform, and every result of                     *)
(* transform_with_mapper whose mapper was found, carries the version the   *)
(* call worked with; the result for a mapper that was not found carries    *)
(* none.                                                                   *)
(***************************************************************************)
C14_VersionUnlessMapperNotFound ==
    /\ HasSheet(tcall) => tcall.res.xslt_version = CallVersion(tcall)
    /\ (tcall.op = "mapper" /\ tcall.sheet = NoSheet) =>
           tcall.res.xslt_version = NoneValue

\* a found mapper whose transformation fails for want of Saxon
C14_Witness ==
    /\ tcall.op = "mapper" /\ tcall.sheet = SheetV2
    /\ ~tcall.res.success /\ tcall.res.error = "requires saxonche"

\* the same call made on an empty cache
Fresh(c) ==
    IF c.op = "transform"
    THEN Transform(<<>>, saxonAvailable, c.doc, c.sheet, c.force)
    ELSE TransformWithMapper(<<>>, saxonAvailable, builtinMappers, userMappers,
                             c.doc, c.name)

(***************************************************************************)
(* C15: whatever the compiled-stylesheet cache holds when a call is made,  *)
(* the call returns what the same call returns on an empty cache: the same *)
(* outcome, the same output bytes.  Two calls with the same document and   *)
(* stylesheet therefore return the same result.                            *)
(***************************************************************************)
C15_SameResultWhateverTheCache ==
    tcall.op # "none" => tcall.res = Fresh(tcall).res

\* the same successful lxml call twice, the second served from a cache that
\* also holds another stylesheet
C15_Witness ==
    /\ tcall.op = "transform" /\ tcall.repeat /\ tcall.hit
    /\ tcall.res.success /\ tcall.res.processor = "lxml"
    /\ Cardinality(DOMAIN lxmlCache) >= 2

(***************************************************************************)
(* C20: transform_with_mapper takes the built-in mapper of a name when     *)
(* there is one, else the uploaded one; when there is neither it returns a *)
(* failure with the error "Mapper not found", invokes no processor and     *)
(* leaves the compiled-stylesheet cache unchanged.                         *)
(***************************************************************************)
C20_BuiltinFirstElseNotFound ==
    tcall.op = "mapper" =>
        /\ tcall.name \in DOMAIN builtinMappers => tcall.sheet = builtinMappers[tcall.name]
        /\ (tcall.name \notin DOMAIN builtinMappers /\ tcall.name \in DOMAIN userMappers) =>
               tcall.sheet = userMappers[tcall.name]
        /\ tcall.sheet # NoSheet =>
               tcall.res = Transform(<<>>, saxonAvailable, tcall.doc, tcall.sheet, NoForce).res
        /\ tcall.name \notin (DOMAIN builtinMappers \cup DOMAIN userMappers) =>
               /\ ~tcall.res.success
               /\ tcall.res.error = "Mapper not found"
               /\ tcall.res.output = NoOutput
               /\ tcall.procs = <<>>
               /\ tcall.cacheSame

\* an unknown name asked for while the cache holds a stylesheet
C20_Witness ==
    /\ tcall.op = "mapper" /\ tcall.name = MissingXsl
    /\ lxmlCache # <<>>
    /\ ~tcall.res.success

(***************************************************************************)
(* routers/validation.py: the endpoints /validate, /validate/compare and   *)
(* /validate/quick.  Each loops over the uploaded files; for a file it     *)
(* reads the content, transforms it when a mapper was given, awaits the    *)
(* registry and appends an entry; any exception of the loop body becomes   *)
(* an error entry.  The endpoints are called with their default validator  *)
(* lists.                                                                  *)
(***************************************************************************)
MaxFiles == 2      \* most files of one request

Endpoints == {"validate", "compare", "quick"}

\* the Form field `mapper`: absent or empty (`if mapper:` is false), or a name
NoMapper == <<>>
Mappers == {NoMapper} \cup MapperNames

Requests ==
    [endpoint : Endpoints, mapper : Mappers,
     files : SeqUpTo(Docs, MaxFiles) \ {<<>>}]

\* validator_types as parsed from the default of the Form field `validators`
DefaultTypes(endpoint) ==
    IF endpoint = "validate" THEN <<"helger">> ELSE <<"helger", "xsd">>

\* transform_xml, given what transform_with_mapper left: it raises on failure
TransformXmlSwallowsFailure(left) == [raised |-> FALSE, error |-> NoneValue]

TransformXml(left) ==
    IF ~left.res.success
    THEN [raised |-> TRUE,
          error |-> IF left.res.error = "Mapper not found"
                    THEN "MapperNotFoundError" ELSE "TransformationError"]
    ELSE [raised |-> FALSE, error |-> NoneValue]

\* the bytes a transformation returned, as a document for the validators
Transformed(wf) == [wellformed |-> wf, utf8 |-> TRUE]

\* what the loop appends for a file: the error of the entry (None for an
\* entry built from the registry's result) and the validators that were
\* entered while the file was handled
Entry(error, ran) == [error |-> error, ran |-> ran]

RouterInit ==
    /\ RegistryOff /\ CompareOff /\ LocalOff /\ DetectOff /\ SideOff
    /\ TransformerUp
    /\ rpc = "idle" /\ request = NoRequest /\ fileIdx = 0 /\ entries = <<>>

\* a request reaches an endpoint: `results = []`
RouteStart ==
    /\ phase = "idle" /\ rpc = "idle"
    /\ \E r \in Requests : request' = r
    /\ rpc' = "file"
    /\ fileIdx' = 1
    /\ entries' = <<>>
    /\ UNCHANGED <<registryVars, compareVars, localVars, detectVars, sideVars, transformVars>>

\* the registry call of the endpoint, up to its first await
RouteValidate(d) ==
    IF request.endpoint = "validate"
    THEN Begin("validate", ListSel(DefaultTypes("validate")), d) /\ UNCHANGED comparison
    ELSE IF request.endpoint = "compare"
    THEN Begin("compare", ListSel(DefaultTypes("compare")), d)
         /\ comparison' = ComparisonMatrix(<<>>)
    ELSE Begin("local_only", ListSel(LocalTypes(registry)), d) /\ UNCHANGED comparison

\* the loop body up to the first await of the registry: read the file,
\* transform it if a mapper was given; an exception appends the error entry
RouteFile ==
    /\ rpc = "file" /\ fileIdx <= Len(request.files)
    /\ LET d == request.files[fileIdx]
       IN  IF request.mapper = NoMapper
           THEN /\ RouteValidate(d)
                /\ rpc' = "batch"
                /\ UNCHANGED <<fileIdx, entries, transformVars>>
           ELSE LET left == TransformWithMapper(lxmlCache, saxonAvailable, builtinMappers,
                                                userMappers, d, request.mapper)
                    x == TransformXml(left)
                IN  /\ lxmlCache' = left.cache
                    /\ tcall' = Called("mapper", d,
                                       ResolveMapper(builtinMappers, userMappers,
                                                     request.mapper),
                                       request.mapper, NoForce, left)
                    /\ compilations' = Compiled(compilations,
                                                ResolveMapper(builtinMappers, userMappers,
                                                              request.mapper),
                                                left)
                    /\ UNCHANGED <<saxonAvailable, builtinMappers, userMappers>>
                    /\ IF x.raised
                       THEN /\ entries' = Append(entries, Entry(x.error, invoked))
                            /\ fileIdx' = fileIdx + 1
                            /\ UNCHANGED <<rpc, registryVars, comparison>>
                       ELSE /\ \E wf \in BOOLEAN : RouteValidate(Transformed(wf))
                            /\ rpc' = "batch"
                            /\ UNCHANGED <<fileIdx, entries>>
    /\ UNCHANGED <<request, localVars, detectVars, sideVars>>

\* validate returns to an endpoint other than /validate/compare
RouteAggregate ==
    /\ rpc = "batch" /\ mode # "compare"
    /\ Aggregate

\* the registry returned: the entry of the file is appended, the loop goes on
RouteCollect ==
    /\ rpc = "batch" /\ phase = "done"
    /\ entries' = Append(entries, Entry(NoneValue, invoked))
    /\ fileIdx' = fileIdx + 1
    /\ rpc' = "file"
    /\ phase' = "idle"
    /\ netFault' = FALSE
    /\ mode' = "validate" /\ sel' = NoneSel /\ doc' = NoDoc /\ validators' = <<>>
    /\ localRes' = <<>> /\ extIdx' = 1 /\ hpc' = "out" /\ tEnter' = 0
    /\ results' = <<>> /\ ret' = NoReturn /\ now' = 0 /\ calls' = <<>>
    /\ invoked' = <<>> /\ outcomes' = <<>>
    /\ comparison' = <<>>
    /\ UNCHANGED <<client, registry, request>>
    /\ UNCHANGED <<localVars, detectVars, sideVars, transformVars>>

\* the loop is over: `return {"results": results}`
RouteReturn ==
    /\ rpc = "file" /\ fileIdx > Len(request.files)
    /\ rpc' = "returned"
    /\ UNCHANGED <<request, fileIdx, entries>>
    /\ UNCHANGED <<registryVars, compareVars, localVars, detectVars, sideVars, transformVars>>

RouterNext ==
    \/ Construct
    \/ RouteStart
    \/ RouteFile
    \/ RunLocal
    \/ JoinLocal
    \/ ExtEnter
    \/ ExtCall
    \/ RouteAggregate
    \/ AggregateCompare
    \/ RouteCollect
    \/ RouteReturn

RouterSpec == RouterInit /\ [][RouterNext]_vars

\* the transformation of file k of the request fails
TransformFails(k) ==
    /\ request.mapper # NoMapper
    /\ ~TransformWithMapper(<<>>, saxonAvailable, builtinMappers, userMappers,
                            request.files[k], request.mapper).res.success

(***************************************************************************)
(* C17: in the three endpoints, when a mapper is requested and the         *)
(* transformation of a file fails, the registry is not called for that     *)
(* file and no validator is entered, the entry of the file carries the     *)
(* error, every other file gets the entry of its validation, and the       *)
(* response holds one entry per file.                                      *)
(***************************************************************************)
C17_FailedTransformSkipsValidation ==
    rpc \in {"file", "batch", "returned"} =>
        /\ \A k \in 1..Len(entries) :
              IF TransformFails(k)
              THEN entries[k].error # NoneValue /\ entries[k].ran = <<>>
              ELSE entries[k].error = NoneValue
        /\ rpc = "batch" => ~TransformFails(fileIdx)
        /\ (rpc = "file" /\ fileIdx <= Len(request.files) /\ fileIdx = Len(entries) + 1) =>
              invoked = <<>>
        /\ Len(entries) = fileIdx - 1
        /\ rpc = "returned" => Len(entries) = Len(request.files)

\* a response whose first file failed to transform and whose second file was
\* transformed and validated
C17_Witness ==
    /\ rpc = "returned" /\ Len(entries) = 2
    /\ TransformFails(1) /\ entries[1].error = "TransformationError"
    /\ ~TransformFails(2) /\ entries[2].ran # <<>>

(***************************************************************************)
(* transformer.py: save_user_mapper, delete_user_mapper and list_mappers   *)
(* on the directory user_mappers_dir.  A name is the sequence of its       *)
(* parts; the names given to the calls have no trailing separator.         *)
(***************************************************************************)
Exts == {".xsl", ".xslt"}

\* Path(name).name: what follows the last separator
BaseName(n) ==
    LET seps == {k \in 1..Len(n) : n[k] = "/"}
    IN  IF seps = {} THEN n
        ELSE SubSeq(n, (CHOOSE k \in seps : \A j \in seps : j <= k) + 1, Len(n))

\* lines 268-271: re.sub(r'[^\w\-.]', '_', base_name), then the default extension
SafeName(n) ==
    LET b == BaseName(n)
        c == [k \in 1..Len(b) |-> IF b[k] \in {" ", "/"} THEN "_" ELSE b[k]]
    IN  IF Len(c) > 0 /\ c[Len(c)] \in Exts THEN c ELSE Append(c, ".xsl")

\* save_user_mapper: the directory after path.write_bytes(content), and the path
SaveUserMapper(user, name, content) ==
    [user |-> (SafeName(name) :> content) @@ user, path |-> SafeName(name)]

\* delete_user_mapper: the directory after it, and what it returned
DeleteUserMapper(user, name) ==
    IF BaseName(name) \in DOMAIN user
    THEN [user |-> [n \in DOMAIN user \ {BaseName(name)} |-> user[n]], returned |-> TRUE]
    ELSE [user |-> user, returned |-> FALSE]

\* dir.glob("*.xsl")
GlobXsl(files) == {n \in DOMAIN files : Len(n) > 0 /\ n[Len(n)] = ".xsl"}

\* list_mappers (the order of a glob is the directory's)
ListMappers(builtin, user) ==
    {[name |-> n, type |-> "built-in", xslt_version |-> DetectXsltVersion(builtin[n].decl)] :
        n \in GlobXsl(builtin)}
    \cup
    {[name |-> n, type |-> "user", xslt_version |-> DetectXsltVersion(user[n].decl)] :
        n \in GlobXsl(user)}

\* the names the calls are made with
GivenNames ==
    {UserXsl, MissingXsl, <<"new", ".xslt">>, <<"my", " ", "map">>, <<"plain">>,
     <<"up", "/", "user", ".xsl">>, <<"my", "_", "map", ".xsl">>, <<"plain", ".xsl">>}

\* the contents uploaded
Uploads == {SheetCopy, SheetV2}

StoreInit ==
    /\ RegistryOff /\ CompareOff /\ LocalOff /\ DetectOff /\ RouterOff
    /\ HelgerOff /\ RaceOff /\ PaceOff
    /\ TransformerUp
    /\ scall = NoStoreCall

\* a call of save_user_mapper(name, content)
SaveMapper ==
    /\ \E name \in GivenNames, content \in Uploads :
          LET saved == SaveUserMapper(userMappers, name, content)
          IN  /\ userMappers' = saved.user
              /\ scall' = [op |-> "save", name |-> name, path |-> saved.path]
    /\ UNCHANGED <<saxonAvailable, lxmlCache, builtinMappers, tcall, compilations>>
    /\ UNCHANGED <<registryVars, compareVars, localVars, detectVars, routerVars,
                   helgerVars, raceVars, paceVars>>

\* a call of delete_user_mapper(name)
DeleteMapper ==
    /\ \E name \in GivenNames :
          LET deleted == DeleteUserMapper(userMappers, name)
              afterSave == scall.op = "save" /\ scall.name = name
          IN  /\ userMappers' = deleted.user
              /\ scall' = [op |-> "delete", name |-> name, returned |-> deleted.returned,
                           afterSave |-> afterSave,
                           savedAs |-> IF afterSave THEN scall.path ELSE <<>>,
                           hadFile |-> BaseName(name) \in DOMAIN userMappers,
                           same |-> deleted.user = userMappers]
    /\ UNCHANGED <<saxonAvailable, lxmlCache, builtinMappers, tcall, compilations>>
    /\ UNCHANGED <<registryVars, compareVars, localVars, detectVars, routerVars,
                   helgerVars, raceVars, paceVars>>

\* a call of list_mappers()
ListCall ==
    /\ scall' = [op |-> "list", listing |-> ListMappers(builtinMappers, userMappers)]
    /\ UNCHANGED <<registryVars, compareVars, localVars, detectVars, transformVars,
                   routerVars, helgerVars, raceVars, paceVars>>

StoreNext ==
    \/ SaveMapper
    \/ DeleteMapper
    \/ ListCall

StoreSpec == StoreInit /\ [][StoreNext]_vars

(***************************************************************************)
(* C21: delete_user_mapper(name) right after save_user_mapper(name, ...)   *)
(* returns True and the file that was saved is gone; delete_user_mapper of *)
(* a name with no stored file returns False and leaves the directory as it *)
(* was.                                                                    *)
(***************************************************************************)
C21_SaveThenDelete ==
    scall.op = "delete" =>
        /\ scall.afterSave => (scall.returned /\ scall.savedAs \notin DOMAIN userMappers)
        /\ ~scall.hadFile => (~scall.returned /\ scall.same)

\* the user mappers list_mappers reported
ListedUser == {e.name : e \in {x \in scall.listing : x.type = "user"}}

(***************************************************************************)
(* C30: list_mappers reports with type "user" exactly the files of the     *)
(* uploads directory, and every one of them resolves.                      *)
(***************************************************************************)
C30_ListsStoredUserMappers ==
    scall.op = "list" =>
        /\ ListedUser = DOMAIN userMappers
        /\ \A n \in DOMAIN userMappers :
              ResolveMapper(builtinMappers, userMappers, n) # NoSheet

(***************************************************************************)
(* C23: over any sequence of calls, lxml compiles the stylesheets of one   *)
(* digest at most once; once compiled the digest stays in the cache, and a *)
(* call that finds its digest in the cache compiles nothing.               *)
(***************************************************************************)
C23_CompiledAtMostOnce ==
    /\ \A k \in DOMAIN compilations :
          compilations[k] <= 1 /\ k \in DOMAIN lxmlCache
    /\ (tcall.op # "none" /\ tcall.hit) => ~tcall.compiled

\* a cache hit on a stylesheet every earlier call of which failed
C23_Witness ==
    /\ tcall.op = "transform" /\ tcall.procs = <<"lxml">>
    /\ tcall.sheet = SheetFaulty /\ tcall.hit /\ ~tcall.compiled
    /\ compilations[Md5(SheetFaulty)] = 1

\* a step keeps every entry of the cache, and an entry it adds is the
\* compiled form of the stylesheet of the call, which compiles
CacheStep ==
    /\ \A k \in DOMAIN lxmlCache :
          k \in DOMAIN lxmlCache' /\ lxmlCache'[k] = lxmlCache[k]
    /\ \A k \in DOMAIN lxmlCache' \ DOMAIN lxmlCache :
          /\ k = Md5(tcall'.sheet)
          /\ tcall'.sheet.wellformed /\ tcall'.sheet.compiles
          /\ lxmlCache'[k] = Compile(tcall'.sheet)

(***************************************************************************)
(* C24: no call removes or replaces an entry of the compiled-stylesheet    *)
(* cache; an entry a call adds is keyed by the digest of the call's        *)
(* stylesheet, which compiled, and holds its compiled form; a stylesheet   *)
(* that fails to compile adds nothing.                                     *)
(***************************************************************************)
C24_CacheOnlyGrowsByCompiled == [][CacheStep]_vars

\* a failed compilation has left a cache of two stylesheets as it was
C24_Witness ==
    /\ tcall.op = "transform" /\ tcall.sheet = SheetNoXslt /\ tcall.procs = <<"lxml">>
    /\ tcall.res.error = "XSLT parse error"
    /\ Cardinality(DOMAIN lxmlCache) >= 2

(***************************************************************************)
(* C25: the schema cache holds one entry per schema file: a relative name  *)
(* and the absolute path of the same file under XSD_DIR share their entry. *)
(***************************************************************************)
C25_OneEntryPerSchemaFile ==
    \A p, q \in schemaCache : p.file = q.file => p = q

(***************************************************************************)
(* C29: every row of the comparison matrix has a validator entry with      *)
(* found = true.                                                           *)
(***************************************************************************)
C29_EveryRowFound ==
    (phase = "done" /\ mode = "compare") =>
        \A k \in 1..Len(comparison) :
            \E j \in 1..Len(comparison[k].validators) :
                comparison[k].validators[j].found

(***************************************************************************)
(* helger.py: the parsing of a structured report (lines 100-146) when the  *)
(* items of result_dict["Result"] carry lists of nested items under the    *)
(* key "Item".  An item is [errorLevel, errorID, Item]; reports here nest  *)
(* three deep.                                                             *)
(***************************************************************************)
LeafItems == [errorLevel : Levels, errorID : RuleIds, Item : {<<>>}]
MidItems ==
    [errorLevel : Levels, errorID : RuleIds,
     Item : {<<>>} \cup {<<x>> : x \in LeafItems}]
TopItems ==
    [errorLevel : Levels, errorID : RuleIds,
     Item : {<<>>} \cup {<<x>> : x \in MidItems}]
NestedReports ==
    {<<t>> : t \in TopItems} \cup {<<t, u>> : t \in TopItems, u \in LeafItems}

\* _parse_issue: None for an item without level
ParseIssue(item) ==
    IF item.errorLevel = "" THEN <<>>
    ELSE <<ValidationIssue(LevelSeverity(item.errorLevel), item.errorID, "remote")>>

RECURSIVE SubIssues(_)
\* `for sub in item["Item"]` (lines 106-109)
SubIssues(subs) ==
    IF subs = <<>> THEN <<>>
    ELSE ParseIssue(Head(subs)) \o SubIssues(Tail(subs))

RECURSIVE ResultIssues(_)
\* `for item in result_dict.get("Result", [])` (lines 103-113)
ResultIssues(result) ==
    IF result = <<>> THEN <<>>
    ELSE LET item == Head(result)
         IN  (IF item.Item # <<>> THEN SubIssues(item.Item) ELSE ParseIssue(item))
             \o ResultIssues(Tail(result))

HelgerInit ==
    /\ RegistryOff /\ CompareOff /\ LocalOff /\ DetectOff /\ TransformOff /\ RouterOff
    /\ StoreOff /\ RaceOff /\ PaceOff
    /\ hcall = NoReport

\* HelgerValidator.validate once the remote authority answered
HelgerParse ==
    /\ \E result \in NestedReports :
          hcall' = [parsed |-> TRUE, result |-> result, issues |-> ResultIssues(result)]
    /\ UNCHANGED <<registryVars, compareVars, localVars, detectVars, transformVars,
                   routerVars, storeVars, raceVars, paceVars>>

HelgerNext == HelgerParse

HelgerSpec == HelgerInit /\ [][HelgerNext]_vars

RECURSIVE LevelledItems(_)
\* the items of a list that carry a level, at every depth, parents first
LevelledItems(items) ==
    IF items = <<>> THEN <<>>
    ELSE LET item == Head(items)
         IN  (IF item.errorLevel = "" THEN <<>> ELSE <<item>>)
             \o LevelledItems(item.Item) \o LevelledItems(Tail(items))

\* how many elements of a sequence satisfy a test
CountOf(seq, Test(_)) == Cardinality({k \in 1..Len(seq) : Test(seq[k])})

(***************************************************************************)
(* C22: the issues of a report are, one for one, its items that carry a    *)
(* level, at every nesting depth: for each severity and rule as many       *)
(* issues as levelled items of that level and errorID.                     *)
(***************************************************************************)
C22_OneIssuePerLevelledItem ==
    hcall.parsed =>
        \A sev \in Severity, rule \in RuleIds :
            CountOf(hcall.issues, LAMBDA i : i.severity = sev /\ i.rule_id = rule)
              = CountOf(LevelledItems(hcall.result),
                        LAMBDA x : LevelSeverity(x.errorLevel) = sev /\ x.errorID = rule)

\* the validators a batch is to run, read off the selection: the known type
\* names in the order given; all registered validators for None or []
Wanted ==
    IF sel.given /\ sel.types # <<>>
    THEN [k \in 1..Len(KnownSelected) |-> Lookup(registry, KnownSelected[k])]
    ELSE registry

\* result r is the result of validator v (or the synthetic result for its exception)
ResultOf(r, v, o) ==
    IF o.tag = "exc" /\ IsLocal(v) THEN r.validator_name = "Unknown"
    ELSE r.validator_name = Name(v) /\ r.validator_type = v.vtype

(***************************************************************************)
(* C27: within a batch no external validator is entered while a selected   *)
(* local validator has not finished, and the returned list holds the       *)
(* results of the local validators in selection order followed by those of *)
(* the external validators in the order they were invoked.                 *)
(***************************************************************************)
C27_LocalBeforeExternal ==
    /\ \A j \in 1..Len(invoked) :
          ~IsLocal(invoked[j]) =>
              /\ \A i \in 1..Len(localRes) : localRes[i] # Pending
              /\ Len(LocalOf(invoked)) = Len(LocalOf(Wanted))
              /\ \A i \in 1..(j - 1) : IsLocal(invoked[i]) => i <= Len(LocalOf(Wanted))
              /\ j > Len(LocalOf(Wanted))
    /\ (Done /\ mode # "local_only") =>
          LET loc == LocalOf(Wanted)
              ext == ExternalOf(Wanted)
          IN  /\ Len(ret.results) = Len(loc) + Len(ext)
              /\ invoked = loc \o ext
              /\ \A k \in 1..Len(ret.results) :
                    /\ outcomes[k].v = invoked[k]
                    /\ ResultOf(ret.results[k], invoked[k], outcomes[k])

\* all registered validators ran: two local results, then the remote one,
\* although the remote validator is registered first
C27_Witness ==
    /\ Done /\ ~sel.given
    /\ Len(ret.results) = 3
    /\ IsLocal(invoked[1]) /\ IsLocal(invoked[2]) /\ ~IsLocal(invoked[3])
    /\ ~IsLocal(registry[1])

(***************************************************************************)
(* Concurrent batches on one event loop.                                   *)
(*                                                                         *)
(* Every request handler and ValidatorRegistry.validate are coroutines of  *)
(* one event loop, so a batch runs alone between two points where it waits *)
(* for the loop.  ValidatorRegistry.validate has one such point: the       *)
(* asyncio.gather of the local validators.  HelgerValidator.validate has   *)
(* none: the pacing delay is time.sleep, which blocks the thread of the    *)
(* loop, and the service call is a synchronous call.  ploop is the batch   *)
(* that runs (0: none), pnow the clock in milliseconds, pcalls the remote  *)
(* calls made by the process so far.                                       *)
(***************************************************************************)
MaxBatches == 2      \* concurrent ValidatorRegistry.validate calls
MaxRemote == 2       \* external validators selected by one batch

Batches == 1..MaxBatches

IdleBatch == [pc |-> "idle", ext |-> 0, utf8 |-> TRUE, wake |-> 0, turn |-> 0]

Begun == Cardinality({i \in Batches : ptasks[i].pc # "idle"})

LaterOf(a, b) == IF a >= b THEN a ELSE b

\* asyncio.sleep would give the loop to the other batches during the delay
AsyncSleep(i) == 0

\* time.sleep(self.rate_limit_ms / 1000.0): the thread of the loop sleeps,
\* the batch that called it still runs when the delay is over
TimeSleep(i) == i

PaceInit ==
    /\ RegistryOff /\ CompareOff /\ LocalOff /\ DetectOff /\ TransformOff /\ RouterOff
    /\ StoreOff /\ HelgerOff /\ RaceOff
    /\ ploop = 0
    /\ pnow = 0
    /\ ptasks = [i \in Batches |-> IdleBatch]
    /\ pcalls = <<>>

PaceOthers ==
    UNCHANGED <<registryVars, compareVars, localVars, detectVars, transformVars,
                routerVars, storeVars, helgerVars, raceVars>>

\* a batch is entered: it selects its validators and, when local ones are
\* selected, waits in asyncio.gather; otherwise it goes on to the external
\* validators without leaving the loop
PaceStart(i) ==
    /\ ploop = 0
    /\ ptasks[i].pc = "idle"
    /\ \E hasLocal \in BOOLEAN, n \in 0..MaxRemote, ok \in BOOLEAN :
          /\ ptasks' = [ptasks EXCEPT ![i] =
                           [pc |-> IF hasLocal THEN "gather" ELSE "external",
                            ext |-> n, utf8 |-> ok, wake |-> 0, turn |-> Begun + 1]]
          /\ ploop' = IF hasLocal THEN 0 ELSE i
    /\ UNCHANGED <<pnow, pcalls>>
    /\ PaceOthers

\* the local validators are done and the loop resumes the batch
PaceGather(i) ==
    /\ ploop = 0
    /\ ptasks[i].pc = "gather"
    /\ ptasks' = [ptasks EXCEPT ![i].pc = "external"]
    /\ ploop' = i
    /\ UNCHANGED <<pnow, pcalls>>
    /\ PaceOthers

\* xml_bytes.decode("utf-8") raises before the delay: the registry records
\* an error result and goes on to the next external validator
PaceDecodeError(i) ==
    /\ ploop = i
    /\ ptasks[i].pc = "external"
    /\ ptasks[i].ext > 0
    /\ ~ptasks[i].utf8
    /\ ptasks' = [ptasks EXCEPT ![i].ext = @ - 1]
    /\ UNCHANGED <<ploop, pnow, pcalls>>
    /\ PaceOthers

\* the pacing delay of one external validator
PaceSleep(i) ==
    /\ ploop = i
    /\ ptasks[i].pc = "external"
    /\ ptasks[i].ext > 0
    /\ ptasks[i].utf8
    /\ ptasks' = [ptasks EXCEPT ![i].pc = "slept",
                                ![i].wake = pnow + RATE_LIMIT_MS]
    /\ ploop' = TimeSleep(i)
    /\ pnow' = IF ploop' = i THEN pnow + RATE_LIMIT_MS ELSE pnow
    /\ UNCHANGED pcalls
    /\ PaceOthers

\* the remote call that follows the delay
PaceCall(i) ==
    /\ ploop \in {0, i}
    /\ ptasks[i].pc = "slept"
    /\ LET start == LaterOf(pnow, ptasks[i].wake)
       IN  /\ pcalls' = Append(pcalls, [task |-> i,
                                        slept |-> ptasks[i].wake - RATE_LIMIT_MS,
                                        start |-> start,
                                        end |-> start + CallMs])
           /\ pnow' = start + CallMs
    /\ ptasks' = [ptasks EXCEPT ![i].pc = "external", ![i].ext = @ - 1]
    /\ ploop' = i
    /\ PaceOthers

\* no external validator is left: the batch aggregates and returns
PaceReturn(i) ==
    /\ ploop = i
    /\ ptasks[i].pc = "external"
    /\ ptasks[i].ext = 0
    /\ ptasks' = [ptasks EXCEPT ![i].pc = "done"]
    /\ ploop' = 0
    /\ UNCHANGED <<pnow, pcalls>>
    /\ PaceOthers

PaceNext ==
    \E i \in Batches :
        \/ PaceStart(i)
        \/ PaceGather(i)
        \/ PaceDecodeError(i)
        \/ PaceSleep(i)
        \/ PaceCall(i)
        \/ PaceReturn(i)

PaceSpec == PaceInit /\ [][PaceNext]_vars

(***************************************************************************)
(* C28: whatever the interleaving of the batches of one event loop, remote *)
(* calls never overlap, every remote call directly follows its own whole   *)
(* pacing delay with no other remote call between the start of that delay  *)
(* and the call, and two consecutive remote calls of the process are at    *)
(* least RATE_LIMIT_MS apart.                                              *)
(***************************************************************************)
C28_RemoteCallsPaced ==
    \A k \in 1..Len(pcalls) :
        /\ pcalls[k].start >= pcalls[k].slept + RATE_LIMIT_MS
        /\ pcalls[k].end >= pcalls[k].start
        /\ k > 1 => /\ pcalls[k].slept >= pcalls[k - 1].end
                    /\ pcalls[k].start >= pcalls[k - 1].end + RATE_LIMIT_MS

\* a batch that was entered first waited for its local validators while
\* the other one made its remote call; both have made a remote call
C28_Witness ==
    /\ Len(pcalls) >= 2
    /\ pcalls[1].task # pcalls[2].task
    /\ ptasks[pcalls[1].task].turn > ptasks[pcalls[2].task].turn

(***************************************************************************)
(* Several calls populating one compiled-artifact cache.                   *)
(*                                                                         *)
(* TransformerService._lxml_cache, XSDValidator._schema_cache and          *)
(* SchematronValidator._xslt_cache are dicts filled the same way: test the *)
(* key, compile on a miss, assign the entry.  A dict holds one value per   *)
(* key and its test and assignment are single operations of the            *)
(* interpreter; the cache is held here as the sequence of its entries so   *)
(* that this is a property of the assignment and not of the notation.  The *)
(* calls are interleaved between any two of the three steps, which covers  *)
(* the serial runs of the event loop.                                      *)
(***************************************************************************)
MaxWorkers == 2      \* calls that go through the cache at the same time

Workers == 1..MaxWorkers

CacheKeys == {"k0", "k1", "k2", "bad"}

\* the source of "bad" does not compile: the compiler raises
Compiles(key) == key # "bad"

Artifact(key, w) == [source |-> key, by |-> w]

Held == <<[key |-> "k0", art |-> Artifact("k0", 0)]>>

EntriesOf(cache, key) == {n \in 1..Len(cache) : cache[n].key = key}

InCache(cache, key) == EntriesOf(cache, key) # {}

\* an assignment that would add a second entry beside the one of the key
CacheInsertAppends(cache, key, art) == Append(cache, [key |-> key, art |-> art])

\* self._lxml_cache[cache_key] = ET.XSLT(xslt_doc)
CacheInsert(cache, key, art) ==
    IF InCache(cache, key)
    THEN [n \in 1..Len(cache) |->
             IF cache[n].key = key THEN [key |-> key, art |-> art] ELSE cache[n]]
    ELSE Append(cache, [key |-> key, art |-> art])

NoArtifact == [source |-> "none", by |-> 0]

IdleWorker == [pc |-> "idle", key |-> "k0", stored |-> FALSE, got |-> NoArtifact]

RaceInit ==
    /\ RegistryOff /\ CompareOff /\ LocalOff /\ DetectOff /\ TransformOff /\ RouterOff
    /\ StoreOff /\ HelgerOff /\ PaceOff
    /\ raceCache = Held
    /\ workers = [w \in Workers |-> IdleWorker]

RaceOthers ==
    UNCHANGED <<registryVars, compareVars, localVars, detectVars, transformVars,
                routerVars, storeVars, helgerVars, paceVars>>

\* if cache_key not in self._lxml_cache
RaceLookup(w) ==
    /\ workers[w].pc = "idle"
    /\ \E key \in CacheKeys :
          workers' = [workers EXCEPT ![w] =
                         [pc |-> IF InCache(raceCache, key) THEN "cached" ELSE "missed",
                          key |-> key, stored |-> FALSE, got |-> NoArtifact]]
    /\ UNCHANGED raceCache
    /\ RaceOthers

\* ET.XSLT(ET.fromstring(xslt_bytes)): raises on a source that does not
\* compile, and then nothing is assigned
RaceCompile(w) ==
    /\ workers[w].pc = "missed"
    /\ workers' = [workers EXCEPT ![w].pc =
                      IF Compiles(workers[w].key) THEN "compiled" ELSE "done"]
    /\ UNCHANGED raceCache
    /\ RaceOthers

RaceStore(w) ==
    /\ workers[w].pc = "compiled"
    /\ raceCache' = CacheInsert(raceCache, workers[w].key, Artifact(workers[w].key, w))
    /\ workers' = [workers EXCEPT ![w].pc = "cached", ![w].stored = TRUE]
    /\ RaceOthers

\* transform = self._lxml_cache[cache_key]
RaceUse(w) ==
    /\ workers[w].pc = "cached"
    /\ \E n \in EntriesOf(raceCache, workers[w].key) :
          workers' = [workers EXCEPT ![w].pc = "done", ![w].got = raceCache[n].art]
    /\ UNCHANGED raceCache
    /\ RaceOthers

RaceNext ==
    \E w \in Workers :
        \/ RaceLookup(w)
        \/ RaceCompile(w)
        \/ RaceStore(w)
        \/ RaceUse(w)

RaceSpec == RaceInit /\ [][RaceNext]_vars

StoredKey(key) == \E w \in Workers : workers[w].stored /\ workers[w].key = key

(***************************************************************************)
(* C26: in every interleaving of calls that populate the same key the      *)
(* cache has exactly one entry for a key that was stored, that entry is a  *)
(* compiled artifact of the source of the key, and the entries of the      *)
(* other keys are the ones the cache had before; a call that reads the     *)
(* entry of its key reads such an artifact.                                *)
(***************************************************************************)
C26_CacheNeverCorrupted ==
    /\ \A key \in CacheKeys :
          /\ Cardinality(EntriesOf(raceCache, key)) <= 1
          /\ StoredKey(key) => Cardinality(EntriesOf(raceCache, key)) = 1
          /\ (~StoredKey(key) /\ key # "k0") => ~InCache(raceCache, key)
    /\ \A n \in 1..Len(raceCache) :
          /\ raceCache[n].art.source = raceCache[n].key
          /\ Compiles(raceCache[n].key)
    /\ raceCache[1] = Held[1]
    /\ \A w \in Workers :
          /\ workers[w].pc = "cached" => InCache(raceCache, workers[w].key)
          /\ workers[w].got # NoArtifact => workers[w].got.source = workers[w].key

\* two calls missed the same key, both compiled and both assigned it
C26_Witness ==
    \E v, w \in Workers :
        /\ v # w
        /\ workers[v].stored /\ workers[w].stored
        /\ workers[v].key = workers[w].key
        /\ Cardinality(EntriesOf(raceCache, workers[v].key)) = 1

====
